---- MODULE Spec2Model ----
(***************************************************************************)
(* Model of the image-to-date extraction engine of the food expiry         *)
(* tracker (src/ocr_engine.py).  Text is a sequence of one-character       *)
(* strings; the date patterns are matched character by character the way   *)
(* Python's re module matches them (leftmost start, greedy quantifiers     *)
(* with backtracking, IGNORECASE).                                         *)
(***************************************************************************)
EXTENDS Integers, Sequences, FiniteSets, TLC

(***************************************************************************)
(* Characters and character classes                                        *)
(***************************************************************************)
DigitSeq == <<"0", "1", "2", "3", "4", "5", "6", "7", "8", "9">>

LowerSeq == <<"a", "b", "c", "d", "e", "f", "g", "h", "i", "j", "k", "l", "m",
              "n", "o", "p", "q", "r", "s", "t", "u", "v", "w", "x", "y", "z">>

UpperSeq == <<"A", "B", "C", "D", "E", "F", "G", "H", "I", "J", "K", "L", "M",
              "N", "O", "P", "Q", "R", "S", "T", "U", "V", "W", "X", "Y", "Z">>

\* \d
Digit == {DigitSeq[i] : i \in 1..10}

\* [a-z] under re.IGNORECASE
Letter == {LowerSeq[i] : i \in 1..26} \cup {UpperSeq[i] : i \in 1..26}

\* \w, the class that decides \b
WordChar == Letter \cup Digit \cup {"_"}

\* \s (the recognised text of the model holds blanks only)
Space == {" "}

\* [-/.]
DateSep == {"-", "/", "."}

\* str.lower() on one character
Lower(c) ==
    IF \E i \in 1..26 : UpperSeq[i] = c
    THEN LowerSeq[CHOOSE i \in 1..26 : UpperSeq[i] = c]
    ELSE c

DigitVal(c) == (CHOOSE i \in 1..10 : DigitSeq[i] = c) - 1

\* int(s) for a string of decimal digits
RECURSIVE ToInt(_)
ToInt(s) ==
    IF s = <<>> THEN 0
    ELSE 10 * ToInt(SubSeq(s, 1, Len(s) - 1)) + DigitVal(s[Len(s)])

\* str.isdigit()
IsDigitStr(s) == Len(s) > 0 /\ \A i \in 1..Len(s) : s[i] \in Digit

SetMin(S) == CHOOSE x \in S : \A y \in S : x <= y

(***************************************************************************)
(* Regular-expression primitives.  Positions are 1-based; a match spans    *)
(* t[start .. stop-1].                                                     *)
(***************************************************************************)
CharAt(t, i) == IF i \in 1..Len(t) THEN t[i] ELSE ""

\* \b at the gap before position i
IsBoundary(t, i) == (CharAt(t, i - 1) \in WordChar) # (CharAt(t, i) \in WordChar)

\* the n characters from position i are all of class S
AllIn(t, i, n, S) == \A j \in i..(i + n - 1) : CharAt(t, j) \in S

\* a literal under re.IGNORECASE
IsLit(t, i, lit) == \A j \in 1..Len(lit) : Lower(CharAt(t, i + j - 1)) = Lower(lit[j])

Slice(t, i, n) == SubSeq(t, i, i + n - 1)

(***************************************************************************)
(* A pattern is run from one start position as a set of partial matches    *)
(* (paths): pos is the position the engine has reached and groups the      *)
(* capture groups closed so far.  Each combinator extends every path in    *)
(* every way its regex element allows, so the paths that survive the last  *)
(* element are exactly the ways the pattern matches from that start.       *)
(***************************************************************************)
Start(s) == {[pos |-> s, groups |-> <<>>]}

\* \b
Boundary(P, t) == {x \in P : IsBoundary(t, x.pos)}

\* C{W}: n characters of class C, n in W
Class(P, t, C, W) ==
    UNION {{[x EXCEPT !.pos = x.pos + n] : n \in {w \in W : AllIn(t, x.pos, w, C)}} : x \in P}

\* C*
Star(P, t, C) == Class(P, t, C, 0..Len(t))

\* C?
Opt(P, t, C) == Class(P, t, C, {0, 1})

\* (C{W})
Group(P, t, C, W) ==
    UNION {{[pos    |-> x.pos + n,
             groups |-> Append(x.groups, Slice(t, x.pos, n))] :
            n \in {w \in W : AllIn(t, x.pos, w, C)}} : x \in P}

\* (?:l1|l2|...) under re.IGNORECASE
Lit(P, t, L) ==
    UNION {{[x EXCEPT !.pos = x.pos + Len(l)] : l \in {m \in L : IsLit(t, x.pos, m)}} : x \in P}

\* (l1|l2|...) under re.IGNORECASE
GroupLit(P, t, L) ==
    UNION {{[pos    |-> x.pos + Len(l),
             groups |-> Append(x.groups, Slice(t, x.pos, Len(l)))] :
            l \in {m \in L : IsLit(t, x.pos, m)}} : x \in P}

\* (?:l1|l2|...)?
OptLit(P, t, L) == P \cup Lit(P, t, L)

\* \d{W1}[-/.]\d{W2}[-/.]\d{W3} without capture
NumericBody(P, t, W1, W2, W3) ==
    Class(Class(Class(Class(Class(P, t, Digit, W1), t, DateSep, {1}),
                      t, Digit, W2), t, DateSep, {1}), t, Digit, W3)

\* (\d{W1}[-/.]\d{W2}[-/.]\d{W3}): one group around the whole body
GroupNumericBody(P, t, W1, W2, W3) ==
    UNION {{[pos    |-> y.pos,
             groups |-> Append(x.groups, SubSeq(t, x.pos, y.pos - 1))] :
            y \in NumericBody({x}, t, W1, W2, W3)} : x \in P}

(***************************************************************************)
(* DateExtractor.DATE_PATTERNS, in list order                              *)
(***************************************************************************)
\* Jan|Feb|...|Dec, as the patterns and MONTH_MAP spell them
MonthAbbr == <<<<"J", "a", "n">>,
              <<"F", "e", "b">>,
              <<"M", "a", "r">>,
              <<"A", "p", "r">>,
              <<"M", "a", "y">>,
              <<"J", "u", "n">>,
              <<"J", "u", "l">>,
              <<"A", "u", "g">>,
              <<"S", "e", "p">>,
              <<"O", "c", "t">>,
              <<"N", "o", "v">>,
              <<"D", "e", "c">>>>

MonthNames == {MonthAbbr[m] : m \in 1..12}

\* (?:st|nd|rd|th)
Ordinals == {<<"s", "t">>, <<"n", "d">>, <<"r", "d">>, <<"t", "h">>}

\* the label keywords of pattern 6
Keywords ==
    {<<"E", "X", "P">>,
    <<"E", "x", "p">>,
    <<"E", "x", "p", "i", "r", "y">>,
    <<"B", "e", "s", "t", " ", "B", "e", "f", "o", "r", "e">>,
    <<"U", "s", "e", " ", "B", "y">>,
    <<"B", "B">>,
    <<"U", "S", "E", " ", "B", "Y">>,
    <<"S", "e", "l", "l", " ", "B", "y">>,
    <<"M", "F", "G">>,
    <<"M", "a", "n", "u", "f", "a", "c", "t", "u", "r", "e", "d">>}

\* the label keywords of pattern 7
IsoKeywords ==
    {<<"E", "X", "P">>,
    <<"E", "x", "p">>,
    <<"E", "x", "p", "i", "r", "y">>,
    <<"B", "e", "s", "t", " ", "B", "e", "f", "o", "r", "e">>,
    <<"U", "s", "e", " ", "B", "y">>}

\* \b(\d{1,2})[-/.](\d{1,2})[-/.](\d{2,4})\b
PatDMY(t, s) ==
    LET a == Group(Boundary(Start(s), t), t, Digit, {1, 2})
        b == Group(Class(a, t, DateSep, {1}), t, Digit, {1, 2})
        c == Group(Class(b, t, DateSep, {1}), t, Digit, {2, 3, 4})
    IN  Boundary(c, t)

\* \b(\d{4})[-/.](\d{1,2})[-/.](\d{1,2})\b
PatYMD(t, s) ==
    LET a == Group(Boundary(Start(s), t), t, Digit, {4})
        b == Group(Class(a, t, DateSep, {1}), t, Digit, {1, 2})
        c == Group(Class(b, t, DateSep, {1}), t, Digit, {1, 2})
    IN  Boundary(c, t)

\* \b(\d{1,2})\.(\d{1,2})\.(\d{2,4})\b
PatDotted(t, s) ==
    LET a == Group(Boundary(Start(s), t), t, Digit, {1, 2})
        b == Group(Class(a, t, {"."}, {1}), t, Digit, {1, 2})
        c == Group(Class(b, t, {"."}, {1}), t, Digit, {2, 3, 4})
    IN  Boundary(c, t)

\* \b(\d{1,2})\s*(?:st|nd|rd|th)?\s*(Jan|...|Dec)[a-z]*\.?\s*(\d{4})\b
PatDayMonthName(t, s) ==
    LET a == Group(Boundary(Start(s), t), t, Digit, {1, 2})
        b == Star(OptLit(Star(a, t, Space), t, Ordinals), t, Space)
        c == GroupLit(b, t, MonthNames)
        d == Star(Opt(Star(c, t, Letter), t, {"."}), t, Space)
    IN  Boundary(Group(d, t, Digit, {4}), t)

\* \b(Jan|...|Dec)[a-z]*\.?\s*(\d{1,2})(?:st|nd|rd|th)?[,.\s]*(\d{4})\b
PatMonthNameDay(t, s) ==
    LET a == GroupLit(Boundary(Start(s), t), t, MonthNames)
        b == Star(Opt(Star(a, t, Letter), t, {"."}), t, Space)
        c == OptLit(Group(b, t, Digit, {1, 2}), t, Ordinals)
        d == Star(c, t, {",", "."} \cup Space)
    IN  Boundary(Group(d, t, Digit, {4}), t)

\* (?:EXP|...|Manufactured)\s*[:=]?\s*(\d{1,2}[-/.]\d{1,2}[-/.]\d{2,4})
PatKeywordDMY(t, s) ==
    LET a == Lit(Start(s), t, Keywords)
        b == Star(Opt(Star(a, t, Space), t, {":", "="}), t, Space)
    IN  GroupNumericBody(b, t, {1, 2}, {1, 2}, {2, 3, 4})

\* (?:EXP|Exp|Expiry|Best Before|Use By)\s*[:=]?\s*(\d{4}[-/.]\d{1,2}[-/.]\d{1,2})
PatKeywordYMD(t, s) ==
    LET a == Lit(Start(s), t, IsoKeywords)
        b == Star(Opt(Star(a, t, Space), t, {":", "="}), t, Space)
    IN  GroupNumericBody(b, t, {4}, {1, 2}, {1, 2})

NumPatterns == 7

\* the ways pattern k matches t from start s
DATE_PATTERNS(k, t, s) ==
    CASE k = 1 -> PatDMY(t, s)
      [] k = 2 -> PatYMD(t, s)
      [] k = 3 -> PatDotted(t, s)
      [] k = 4 -> PatDayMonthName(t, s)
      [] k = 5 -> PatMonthNameDay(t, s)
      [] k = 6 -> PatKeywordDMY(t, s)
      [] k = 7 -> PatKeywordYMD(t, s)

\* The match the engine reports among the ways P a pattern matches from
\* start s, as the set {} or {match}.  Every quantifier of the patterns is
\* greedy and only a trailing \d{m,n} that no \b closes can stop at more
\* than one place, so the reported match is the one that reaches furthest.
Longest(s, P) ==
    {[start |-> s, stop |-> x.pos, groups |-> x.groups] :
        x \in {y \in P : \A z \in P : z.pos <= y.pos}}

MatchAt(k, t, s) == Longest(s, DATE_PATTERNS(k, t, s))

\* the match pattern k reports from each start position of t
MatchesOf(k, t) == UNION {MatchAt(k, t, s) : s \in 1..Len(t)}

\* of the matches M, the one that starts first at or after position from
Leftmost(M, from) ==
    {m \in M : m.start >= from /\ \A o \in M : o.start >= from => m.start <= o.start}

\* re.search(pattern, t): the match at the leftmost start that matches
Search(k, t) == Leftmost(MatchesOf(k, t), 1)

\* re.finditer(pattern, t): the scan resumes where the last match stopped,
\* which gives the non-overlapping matches from left to right
RECURSIVE Scan(_, _)
Scan(M, from) ==
    IF Leftmost(M, from) = {} THEN <<>>
    ELSE <<CHOOSE m \in Leftmost(M, from) : TRUE>>
         \o Scan(M, (CHOOSE m \in Leftmost(M, from) : TRUE).stop)

FindIter(k, t) == Scan(MatchesOf(k, t), 1)

(***************************************************************************)
(* Calendar                                                                *)
(***************************************************************************)
IsLeap(y) == (y % 4 = 0 /\ y % 100 # 0) \/ y % 400 = 0

DaysInMonth(y, m) ==
    IF m = 2 THEN (IF IsLeap(y) THEN 29 ELSE 28)
    ELSE IF m \in {4, 6, 9, 11} THEN 30 ELSE 31

\* datetime(year, month, day, tzinfo=UTC) does not raise ValueError
ValidDate(y, m, d) ==
    /\ y \in 1..9999
    /\ m \in 1..12
    /\ d \in 1..DaysInMonth(y, m)

(***************************************************************************)
(* DateExtractor.parse_date                                                *)
(***************************************************************************)
\* MONTH_MAP.get(key): the month number, 0 standing for None
MONTH_MAP(key) ==
    IF \E m \in 1..12 : [i \in 1..3 |-> Lower(MonthAbbr[m][i])] = key
    THEN CHOOSE m \in 1..12 : [i \in 1..3 |-> Lower(MonthAbbr[m][i])] = key
    ELSE 0

\* groups[1].lower()[:3]
MonthKey(g) == [i \in 1..(IF Len(g) < 3 THEN Len(g) ELSE 3) |-> Lower(g[i])]

\* the plausibility window of line 132
MinYear == 2020

MaxYear == 2035

ExpandYearPivot51(year) ==
    IF year < 100 THEN (IF year <= 50 THEN year + 2000 ELSE year + 1900) ELSE year

\* if year < 100: year += 2000 if year < 50 else 1900
ExpandYear(year) ==
    IF year < 100 THEN (IF year < 50 THEN year + 2000 ELSE year + 1900) ELSE year

ResolveOrderDayFirst(a, b) == [day |-> a, month |-> b]

\* if 1 <= a <= 31 and 1 <= b <= 12: day, month = a, b  else: day, month = b, a
ResolveOrder(a, b) ==
    IF 1 <= a /\ a <= 31 /\ 1 <= b /\ b <= 12
    THEN [day |-> a, month |-> b]
    ELSE [day |-> b, month |-> a]

Outcome(kind, y, m, d) == [kind |-> kind, year |-> y, month |-> m, day |-> d]

BuildDateAnyYear(day, month, year) ==
    IF ValidDate(year, month, day)
    THEN Outcome("date", year, month, day)
    ELSE Outcome("next", year, month, day)

\* Lines 130-135 for integer fields: a date inside the window is returned;
\* an invalid date (ValueError, caught) and a valid date outside the window
\* both go on to the next pattern, leaving year, month and day assigned.
\*   "continue"   lines 107-118: on to the next pattern, nothing assigned
\*   "next"       lines 127-135 fell through to the next pattern
\*   "date"       return dt
\*   "TypeError"  line 127 compares the str year of a month-name match with 100
\*   "ValueError" line 121 unpacks fewer than three digit groups
BuildDate(day, month, year) ==
    IF ValidDate(year, month, day) /\ MinYear <= year /\ year <= MaxYear
    THEN Outcome("date", year, month, day)
    ELSE Outcome("next", year, month, day)

\* lines 122-128 for a, b, c
FromFields(a, b, c) ==
    BuildDate(ResolveOrder(a, b).day, ResolveOrder(a, b).month, ExpandYear(c))

\* line 121 for the groups ds that are digit strings
FromDigits(ds) ==
    IF Len(ds) # 3 THEN Outcome("ValueError", 0, 0, 0)
    ELSE FromFields(ToInt(ds[1]), ToInt(ds[2]), ToInt(ds[3]))

\* lines 110-125 for the groups g of a match
FromGroups(g) ==
    IF Len(g) # 3 THEN Outcome("continue", 0, 0, 0)
    ELSE IF ~IsDigitStr(g[2])
    THEN IF MONTH_MAP(MonthKey(g[2])) = 0
         THEN Outcome("continue", 0, 0, 0)
         ELSE Outcome("TypeError", 0, 0, 0)
    ELSE FromDigits(SelectSeq(g, IsDigitStr))

\* lines 106-108 for the result M of re.search
FromSearch(M) ==
    IF M = {} THEN Outcome("continue", 0, 0, 0)
    ELSE FromGroups((CHOOSE m \in M : TRUE).groups)

\* one iteration of the loop of parse_date, for pattern k
ParseWith(k, text) == FromSearch(Search(k, text))

\* The loop over DATE_PATTERNS from pattern k on.  last holds the locals
\* year, month and day as the iterations so far left them; "none" is
\* return None, reported with those locals.
RECURSIVE ParseFrom(_, _, _)
ParseStep(k, text, last, r) ==
    CASE r.kind = "continue" -> ParseFrom(k + 1, text, last)
      [] r.kind = "next"     -> ParseFrom(k + 1, text, r)
      [] OTHER               -> r

ParseFrom(k, text, last) ==
    IF k > NumPatterns THEN Outcome("none", last.year, last.month, last.day)
    ELSE ParseStep(k, text, last, ParseWith(k, text))

parse_date(text) == ParseFrom(1, text, Outcome("none", 0, 0, 0))

(***************************************************************************)
(* DateExtractor.extract_potential_dates                                   *)
(***************************************************************************)
\* 'confidence': 0.85, in thousandths
BaseConfidence == 850

\* match.group(0) of each match in found
Raws(text, found) ==
    [i \in 1..Len(found) |-> SubSeq(text, found[i].start, found[i].stop - 1)]

\* the raw text of every match of patterns k.., in pattern order then text
\* order: the order the two loops visit them in
RECURSIVE AllMatches(_, _)
AllMatches(k, text) ==
    IF k > NumPatterns THEN <<>>
    ELSE Raws(text, FindIter(k, text)) \o AllMatches(k + 1, text)

\* The body of the two loops over the matches raws[i..]: a match whose
\* parse_date raises ends the call with that exception, a match that parses
\* to None is skipped.
RECURSIVE Collect(_, _, _)
Visit(raws, i, acc, dt) ==
    IF dt.kind \in {"TypeError", "ValueError"}
    THEN [outcome |-> dt.kind, candidates |-> <<>>]
    ELSE IF dt.kind = "date"
    THEN Collect(raws, i + 1,
                 Append(acc, [date       |-> [year |-> dt.year, month |-> dt.month,
                                              day |-> dt.day],
                              raw        |-> raws[i],
                              confidence |-> BaseConfidence]))
    ELSE Collect(raws, i + 1, acc)

Collect(raws, i, acc) ==
    IF i > Len(raws) THEN [outcome |-> "returned", candidates |-> acc]
    ELSE Visit(raws, i, acc, parse_date(raws[i]))

extract_potential_dates(text) == Collect(AllMatches(1, text), 1, <<>>)

(***************************************************************************)
(* Label texts.  A printed date is described by its calendar fields and    *)
(* the shape it is printed in; Render spells it out.                       *)
(*   shape 1  D-M-Y           shape 5  Mon D, Y  /  Month Dth Y            *)
(*   shape 2  Y-M-D           shape 6  keyword + D/M/Y                     *)
(*   shape 3  D.M.Y           shape 7  keyword + Y-M-D                     *)
(*   shape 4  Dth Mon Y  /  D Month Y                                      *)
(* wide is FALSE when the year is printed with its last two digits.        *)
(***************************************************************************)
\* n in decimal, zero-padded to w digits
Pad(n, w) == [i \in 1..w |-> DigitSeq[((n \div (10 ^ (w - i))) % 10) + 1]]

Dec(n) == IF n < 10 THEN Pad(n, 1) ELSE Pad(n, 2)

\* the rest of the full month name after its abbreviation
MonthRest == <<<<"u", "a", "r", "y">>, <<"r", "u", "a", "r", "y">>, <<"c", "h">>, <<"i", "l">>, <<>>, <<"e">>, <<"y">>, <<"u", "s", "t">>, <<"t", "e", "m", "b", "e", "r">>, <<"o", "b", "e", "r">>, <<"e", "m", "b", "e", "r">>, <<"e", "m", "b", "e", "r">>>>

YearText(p) == IF p.wide THEN Pad(p.y, 4) ELSE Pad(p.y % 100, 2)

Render(p) ==
    CASE p.shape = 1 -> Pad(p.d, 2) \o <<"-">> \o Pad(p.m, 2) \o <<"-">> \o YearText(p)
      [] p.shape = 2 -> Pad(p.y, 4) \o <<"-">> \o Pad(p.m, 2) \o <<"-">> \o Pad(p.d, 2)
      [] p.shape = 3 -> Pad(p.d, 2) \o <<".">> \o Pad(p.m, 2) \o <<".">> \o YearText(p)
      [] p.shape = 4 ->
            IF p.style = 1
            THEN Dec(p.d) \o <<"t", "h", " ">> \o MonthAbbr[p.m] \o <<" ">> \o Pad(p.y, 4)
            ELSE Dec(p.d) \o <<" ">> \o MonthAbbr[p.m] \o MonthRest[p.m] \o <<" ">>
                 \o Pad(p.y, 4)
      [] p.shape = 5 ->
            IF p.style = 1
            THEN MonthAbbr[p.m] \o <<" ">> \o Dec(p.d) \o <<",", " ">> \o Pad(p.y, 4)
            ELSE MonthAbbr[p.m] \o MonthRest[p.m] \o <<" ">> \o Dec(p.d) \o <<"t", "h", " ">>
                 \o Pad(p.y, 4)
      [] p.shape = 6 ->
            IF p.style = 1
            THEN <<"B", "E", "S", "T", " ", "B", "E", "F", "O", "R", "E", ":", " ">>
                 \o Pad(p.d, 2) \o <<"/">> \o Pad(p.m, 2) \o <<"/">> \o YearText(p)
            ELSE <<"M", "F", "G", " ">>
                 \o Pad(p.d, 2) \o <<"-">> \o Pad(p.m, 2) \o <<"-">> \o YearText(p)
      [] p.shape = 7 ->
            <<"E", "X", "P", ":", " ">>
            \o Pad(p.y, 4) \o <<"-">> \o Pad(p.m, 2) \o <<"-">> \o Pad(p.d, 2)

Printed(shape, d, m, y, wide, style) ==
    [shape |-> shape, d |-> d, m |-> m, y |-> y, wide |-> wide, style |-> style]

\* several printed dates on one label, separated by a blank
RECURSIVE Join(_)
Join(ps) ==
    IF ps = <<>> THEN <<>>
    ELSE IF Len(ps) = 1 THEN Render(ps[1])
    ELSE Render(ps[1]) \o <<" ">> \o Join(Tail(ps))

(***************************************************************************)
(* The inputs the extractor is run on                                      *)
(***************************************************************************)
Days == {5, 13, 26, 29, 31}

Months == {2, 5, 11, 13}

Years == {5, 1950, 2019, 2020, 2026, 2035, 2036, 2049}

\* a two-digit year stands for a year the expansion rule gives back
TwoDigitYears == {y \in Years : 1950 <= y /\ y <= 2049}

GridDates ==
    {Printed(sh, d, m, y, TRUE, 1) :
        sh \in {1, 2, 3, 6, 7}, d \in Days, m \in Months, y \in Years}
    \cup {Printed(sh, d, m, y, FALSE, 1) :
        sh \in {1, 6}, d \in Days, m \in Months, y \in TwoDigitYears}
    \cup {Printed(sh, d, m, y, TRUE, 1) :
        sh \in {4, 5}, d \in Days, m \in Months \cap (1..12), y \in Years}

\* the labels the specification quotes
ExampleDates ==
    {Printed(1, 13, 5, 2026, TRUE, 1),  Printed(1, 5, 13, 2026, TRUE, 1),
     Printed(1, 5, 3, 2026, TRUE, 1),   Printed(1, 30, 2, 2026, TRUE, 1),
     Printed(1, 13, 13, 2026, TRUE, 1), Printed(1, 1, 1, 2049, FALSE, 1),
     Printed(1, 1, 1, 1950, FALSE, 1),  Printed(3, 5, 3, 2026, FALSE, 1),
     Printed(2, 5, 11, 2026, TRUE, 1),  Printed(7, 5, 11, 2026, TRUE, 1),
     Printed(4, 5, 1, 2026, TRUE, 1),   Printed(4, 5, 1, 2026, TRUE, 2),
     Printed(5, 5, 1, 2026, TRUE, 1),   Printed(5, 5, 1, 2026, TRUE, 2),
     Printed(6, 5, 11, 2026, TRUE, 1),  Printed(6, 12, 1, 2019, TRUE, 2)}

\* the dates that labels with several dates are made of
SeveralDates ==
    {Printed(1, 5, 3, 2026, TRUE, 1),  Printed(3, 13, 5, 2035, FALSE, 1),
     Printed(1, 30, 2, 2026, TRUE, 1), Printed(1, 5, 3, 2019, TRUE, 1),
     Printed(2, 13, 5, 2026, TRUE, 1), Printed(6, 5, 11, 2026, TRUE, 1)}

\* the most dates on one label
MaxDates == 2

RECURSIVE SeqsOf(_, _)
SeqsOf(S, n) ==
    IF n = 0 THEN {<<>>}
    ELSE {Append(q, x) : q \in SeqsOf(S, n - 1), x \in S}

Labels ==
    {<<>>}
    \cup {<<p>> : p \in GridDates \cup ExampleDates}
    \cup UNION {SeqsOf(SeveralDates, n) : n \in 2..MaxDates}

(***************************************************************************)
(* Clock.  An instant is a day number (date.toordinal) and part, which is  *)
(* 0 at midnight exactly and 1 later in that day.                          *)
(***************************************************************************)
RECURSIVE DaysBeforeMonth(_, _)
DaysBeforeMonth(y, m) ==
    IF m = 1 THEN 0 ELSE DaysBeforeMonth(y, m - 1) + DaysInMonth(y, m - 1)

\* date(y, m, d).toordinal()
Ordinal(y, m, d) ==
    365 * (y - 1) + ((y - 1) \div 4) - ((y - 1) \div 100) + ((y - 1) \div 400)
    + DaysBeforeMonth(y, m) + d

Instant(y, m, d, part) == [day |-> Ordinal(y, m, d), part |-> part]

NotBefore(a, b) == a.day > b.day \/ (a.day = b.day /\ a.part >= b.part)

\* (date - now).days: the timedelta is floored to whole days
DaysUntil(date, now) ==
    Ordinal(date.year, date.month, date.day) - now.day - (IF now.part > 0 THEN 1 ELSE 0)

(***************************************************************************)
(* DateExtractor.select_best_expiry                                        *)
(***************************************************************************)
MultiplierFarFirst(days) ==
    IF 1 <= days /\ days <= 540 THEN 9
    ELSE IF 1 <= days /\ days <= 1825 THEN 14
    ELSE 3

MultiplierWideBand(days) ==
    IF 1 <= days /\ days <= 541 THEN 14
    ELSE IF 1 <= days /\ days <= 1825 THEN 9
    ELSE 3

\* lines 166-171: the multiplier of the band, in tenths
Multiplier(days) ==
    IF 1 <= days /\ days <= 540 THEN 14
    ELSE IF 1 <= days /\ days <= 1825 THEN 9
    ELSE 3

\* min(conf, 1.0)
Clamp(conf) == IF conf < 1000 THEN conf ELSE 1000

\* lines 163-173 for one candidate; confidences are in thousandths
Scored(cand, days) ==
    [date       |-> cand.date,
     raw        |-> cand.raw,
     confidence |-> Clamp((cand.confidence * Multiplier(days)) \div 10),
     days_until |-> days]

Score(cand, now) == Scored(cand, DaysUntil(cand.date, now))

LastMax(scored) ==
    scored[CHOOSE i \in DOMAIN scored :
              /\ \A j \in DOMAIN scored : scored[j].confidence <= scored[i].confidence
              /\ \A j \in DOMAIN scored :
                    scored[j].confidence = scored[i].confidence => j <= i]

\* max(scored, key=confidence): the first of the maximal entries
FirstMax(scored) ==
    scored[SetMin({i \in DOMAIN scored :
                      \A j \in DOMAIN scored : scored[j].confidence <= scored[i].confidence})]

None == [none |-> TRUE]

select_best_future(candidates, n) ==
    IF candidates = <<>> THEN None
    ELSE IF FirstMax([i \in DOMAIN candidates |-> Score(candidates[i], n)]).days_until < 1
    THEN None
    ELSE FirstMax([i \in DOMAIN candidates |-> Score(candidates[i], n)])

select_best_expiry(candidates, now) ==
    IF candidates = <<>> THEN None
    ELSE FirstMax([i \in DOMAIN candidates |-> Score(candidates[i], now)])

CandidatesAfterInPlace(candidates, now) ==
    [i \in DOMAIN candidates |->
        [candidates[i] EXCEPT !.confidence = Score(candidates[i], now).confidence]]

\* the list that was passed, after the call: line 163 copies the confidence
\* into a local and lines 169-173 append a new dict {**cand, ...}, so no
\* candidate is written to
CandidatesAfter(candidates, now) == candidates

(***************************************************************************)
(* FoodExpiryDetector._extract_text                                        *)
(***************************************************************************)
\* for psm in [6, 7, 11, 3]
Profiles == <<6, 7, 11, 3>>

RECURSIVE GCD(_, _)
GCD(a, b) == IF b = 0 THEN a ELSE GCD(b, a % b)

\* a confidence as the exact fraction num / den, in lowest terms
Frac(n, d) == [num |-> n \div GCD(n, d), den |-> d \div GCD(n, d)]

RECURSIVE SumSeq(_)
SumSeq(q) == IF q = <<>> THEN 0 ELSE Head(q) + SumSeq(Tail(q))

\* valid_confs = [int(c) for c in data['conf'] if int(c) >= 0]
\* avg = np.mean(valid_confs) / 100.0 if valid_confs else 0.0
IsKnown(c) == c >= 0

MeanPercent(valid) ==
    IF valid = <<>> THEN Frac(0, 1) ELSE Frac(SumSeq(valid), 100 * Len(valid))

PassConfidence(conf) == MeanPercent(SelectSeq(conf, IsKnown))

FracAdd(a, b) == Frac(a.num * b.den + b.num * a.den, a.den * b.den)

RECURSIVE FracSum(_)
FracSum(q) == IF q = <<>> THEN Frac(0, 1) ELSE FracAdd(Head(q), FracSum(Tail(q)))

FracDiv(a, n) == Frac(a.num, a.den * n)

FracTotal(q) == FracSum(q)

\* float(np.mean(confs))
FracMean(q) == FracDiv(FracSum(q), Len(q))

\* round(x, 3), in thousandths
Round3(f) == (2000 * f.num + f.den) \div (2 * f.den)

NotBlankAny(t) == Len(t) > 0

\* text.strip() is not empty
NotBlank(t) == \E i \in 1..Len(t) : t[i] \notin Space

\* " ".join(texts)
RECURSIVE JoinTexts(_)
JoinTexts(ts) ==
    IF ts = <<>> THEN <<>>
    ELSE IF Len(ts) = 1 THEN ts[1]
    ELSE ts[1] \o <<" ">> \o JoinTexts(Tail(ts))

\* What one run of the OCR capability can give back: an exception, or a
\* text with the confidence of each token (-1 for a token without one).
\* The text is blank, the whole label, or a piece of print next to the date.
PassOutcomes(label) ==
    {[raises |-> TRUE,  text |-> <<>>,   conf |-> <<>>],
     [raises |-> FALSE, text |-> <<" ">>, conf |-> <<-1>>],
     [raises |-> FALSE, text |-> label,  conf |-> <<90, -1, 80>>],
     [raises |-> FALSE, text |-> <<"E", "X", "P">>, conf |-> <<-1>>]}

\* one run of image_to_string and image_to_data under --psm psm
Call(psm, o) == [psm |-> psm, raises |-> o.raises, text |-> o.text, conf |-> o.conf]

(***************************************************************************)
(* FoodExpiryDetector.extract_expiry_date: the results it returns          *)
(***************************************************************************)
FormatDateShortYear(date) ==
    Pad(date.year % 100, 2) \o <<"-">> \o Pad(date.month, 2) \o <<"-">> \o Pad(date.day, 2)

FormatDateDayFirst(date) ==
    Pad(date.year, 4) \o <<"-">> \o Pad(date.day, 2) \o <<"-">> \o Pad(date.month, 2)

\* best['date'].strftime('%Y-%m-%d')
FormatDate(date) ==
    Pad(date.year, 4) \o <<"-">> \o Pad(date.month, 2) \o <<"-">> \o Pad(date.day, 2)

ExcerptCutsAtLimit(t) ==
    IF Len(t) >= 200 THEN SubSeq(t, 1, 200) \o <<".", ".", ".">> ELSE t

\* text[:200] + "..." if len(text) > 200 else text
ExcerptLen == 200

Excerpt(t) ==
    IF Len(t) > ExcerptLen THEN SubSeq(t, 1, ExcerptLen) \o <<".", ".", ".">> ELSE t

NoPatternFailureNoConf(t, conf) ==
    [success |-> FALSE, error |-> "No date pattern matched in text",
     raw_text |-> Excerpt(t), ocr_confidence |-> Frac(0, 1)]

\* lines 231-236
NoPatternFailure(t, conf) ==
    [success |-> FALSE, error |-> "No date pattern matched in text",
     raw_text |-> Excerpt(t), ocr_confidence |-> conf]

\* lines 241-246
NoneValidFailure(cands, conf) ==
    [success |-> FALSE, error |-> "Found dates but none valid as future expiry",
     candidates |-> [i \in DOMAIN cands |-> cands[i].raw], ocr_confidence |-> conf]

\* lines 250-258
Success(b, days_left, conf) ==
    [success |-> TRUE, date |-> FormatDate(b.date), raw_text |-> b.raw,
     confidence |-> b.confidence, days_until_expiry |-> days_left,
     ocr_confidence |-> Round3(conf), note |-> "Extracted successfully"]

\* lines 260-266: str(e) of the exception caught at the facade boundary
CaughtFailure(e) == [success |-> FALSE, error |-> e, ocr_confidence |-> Frac(0, 1)]

NoResult == [success |-> FALSE, error |-> "not returned", ocr_confidence |-> Frac(0, 1)]

(***************************************************************************)
(* datetime values outside the core.  A datetime has calendar and clock    *)
(* fields and is naive or carries a UTC offset in minutes.                 *)
(***************************************************************************)
DateTime(y, m, d, hh, mi, ss, us, aware, offset) ==
    [kind |-> "datetime", year |-> y, month |-> m, day |-> d, hour |-> hh, minute |-> mi,
     second |-> ss, micro |-> us, aware |-> aware, offset |-> offset]

InvalidIso == [kind |-> "ValueError"]

IsoDatePart(t) ==
    /\ Len(t) >= 10
    /\ AllIn(t, 1, 4, Digit) /\ t[5] = "-"
    /\ AllIn(t, 6, 2, Digit) /\ t[8] = "-"
    /\ AllIn(t, 9, 2, Digit)
    /\ ToInt(SubSeq(t, 1, 4)) >= 1
    /\ ValidDate(ToInt(SubSeq(t, 1, 4)), ToInt(SubSeq(t, 6, 7)), ToInt(SubSeq(t, 9, 10)))

IsoTimePart(t) ==
    /\ Len(t) >= 19
    /\ t[11] \in {"T", " "}
    /\ AllIn(t, 12, 2, Digit) /\ t[14] = ":"
    /\ AllIn(t, 15, 2, Digit) /\ t[17] = ":"
    /\ AllIn(t, 18, 2, Digit)
    /\ ToInt(SubSeq(t, 12, 13)) < 24
    /\ ToInt(SubSeq(t, 15, 16)) < 60
    /\ ToInt(SubSeq(t, 18, 19)) < 60

\* the length of the fraction .ffffff after the seconds, 0 when there is none
IsoFracLen(t) == IF Len(t) >= 26 /\ t[20] = "." /\ AllIn(t, 21, 6, Digit) THEN 7 ELSE 0

IsoMicro(t) == IF IsoFracLen(t) = 0 THEN 0 ELSE ToInt(SubSeq(t, 21, 26))

\* the offset, +HH:MM or -HH:MM, from the position f on
IsoOffsetPart(t, f) ==
    /\ Len(t) = f + 5
    /\ t[f] \in {"+", "-"}
    /\ AllIn(t, f + 1, 2, Digit) /\ t[f + 3] = ":"
    /\ AllIn(t, f + 4, 2, Digit)
    /\ ToInt(SubSeq(t, f + 1, f + 2)) < 24
    /\ ToInt(SubSeq(t, f + 4, f + 5)) < 60

IsoOffset(t, f) ==
    (IF t[f] = "-" THEN -1 ELSE 1)
        * (60 * ToInt(SubSeq(t, f + 1, f + 2)) + ToInt(SubSeq(t, f + 4, f + 5)))

\* datetime.fromisoformat on YYYY-MM-DD and YYYY-MM-DDTHH:MM:SS[.ffffff][+HH:MM];
\* a date alone is midnight, and a text without an offset gives a naive
\* datetime
fromisoformat(t) ==
    IF ~IsoDatePart(t) THEN InvalidIso
    ELSE IF Len(t) = 10
    THEN DateTime(ToInt(SubSeq(t, 1, 4)), ToInt(SubSeq(t, 6, 7)), ToInt(SubSeq(t, 9, 10)),
                  0, 0, 0, 0, FALSE, 0)
    ELSE IF ~IsoTimePart(t) THEN InvalidIso
    ELSE IF Len(t) = 19 + IsoFracLen(t)
    THEN DateTime(ToInt(SubSeq(t, 1, 4)), ToInt(SubSeq(t, 6, 7)), ToInt(SubSeq(t, 9, 10)),
                  ToInt(SubSeq(t, 12, 13)), ToInt(SubSeq(t, 15, 16)), ToInt(SubSeq(t, 18, 19)),
                  IsoMicro(t), FALSE, 0)
    ELSE IF ~IsoOffsetPart(t, 20 + IsoFracLen(t)) THEN InvalidIso
    ELSE DateTime(ToInt(SubSeq(t, 1, 4)), ToInt(SubSeq(t, 6, 7)), ToInt(SubSeq(t, 9, 10)),
                  ToInt(SubSeq(t, 12, 13)), ToInt(SubSeq(t, 15, 16)), ToInt(SubSeq(t, 18, 19)),
                  IsoMicro(t), TRUE, IsoOffset(t, 20 + IsoFracLen(t)))

Abs(n) == IF n < 0 THEN -n ELSE n

\* datetime.isoformat: the microseconds are printed when they are not 0 and
\* the offset when the datetime is aware
isoformat(dt) ==
    Pad(dt.year, 4) \o <<"-">> \o Pad(dt.month, 2) \o <<"-">> \o Pad(dt.day, 2)
    \o <<"T">> \o Pad(dt.hour, 2) \o <<":">> \o Pad(dt.minute, 2) \o <<":">> \o Pad(dt.second, 2)
    \o (IF dt.micro = 0 THEN <<>> ELSE <<".">> \o Pad(dt.micro, 6))
    \o (IF ~dt.aware THEN <<>>
        ELSE <<IF dt.offset < 0 THEN "-" ELSE "+">>
             \o Pad(Abs(dt.offset) \div 60, 2) \o <<":">> \o Pad(Abs(dt.offset) % 60, 2))

(***************************************************************************)
(* State                                                                   *)
(***************************************************************************)
VARIABLES
    printed,     \* the dates printed on the label, in reading order
    image,       \* the image file: is it there, can it be decoded
    pc,          \* where the call is
    text,        \* the text handed to the extractor
    parsed,      \* what parse_date(text) gave
    extracted,   \* what extract_potential_dates(text) gave
    pass,        \* _extract_text: index into Profiles of the next pass
    calls,       \* _extract_text: the runs of the OCR capability made so far
    texts,       \* _extract_text: texts
    confs,       \* _extract_text: confs
    ocr_conf,    \* extract_expiry_date: ocr_conf
    now,         \* the latest instant read from the clock
    best,        \* extract_expiry_date: best
    result,      \* what extract_expiry_date returned
    tesseract_cmd,  \* pytesseract.pytesseract.tesseract_cmd, a module attribute
    detectors,   \* the FoodExpiryDetector instances constructed so far
    temp_file,   \* what the file temp.jpg of the dashboard holds
    sessions,    \* the dashboard sessions: where each is and what it shows
    rows,        \* the table food_items, in insertion order
    reply        \* what the last call on the store or the application returned

\* the state of one call of the OCR core
ocrVars == <<printed, image, pc, text, parsed, extracted, pass, calls, texts, confs,
             ocr_conf, now, best, result>>

\* the state that outlives a call
appVars == <<tesseract_cmd, detectors, temp_file, sessions, rows, reply>>

vars == <<ocrVars, appVars>>

NoReply == [kind |-> "none"]

\* nothing constructed, uploaded or stored yet
AppIdle ==
    /\ tesseract_cmd = "tesseract"
    /\ detectors = <<>>
    /\ temp_file = "missing"
    /\ sessions = <<>>
    /\ rows = <<>>
    /\ reply = NoReply

NotRun == [outcome |-> "not run", candidates |-> <<>>]

Images ==
    {[is_file |-> TRUE,  decodable |-> TRUE],
     [is_file |-> TRUE,  decodable |-> FALSE],
     [is_file |-> FALSE, decodable |-> FALSE]}

\* the instants the clock is read at
Instants ==
    {Instant(2021, 1, 1, 1), Instant(2024, 1, 1, 1), Instant(2026, 3, 4, 0),
     Instant(2026, 3, 4, 1), Instant(2026, 6, 1, 1)}

Started == Instant(2021, 1, 1, 1)

\* the labels that are photographed
PhotoLabels ==
    {<<>>,
     <<Printed(6, 5, 11, 2026, TRUE, 1)>>,
     <<Printed(6, 12, 1, 2019, TRUE, 2)>>,
     <<Printed(1, 5, 3, 2026, TRUE, 1)>>,
     <<Printed(1, 30, 2, 2026, TRUE, 1)>>,
     <<Printed(4, 5, 1, 2026, TRUE, 1)>>,
     <<Printed(2, 5, 11, 2026, TRUE, 1)>>,
     <<Printed(1, 5, 3, 2019, TRUE, 1), Printed(1, 5, 3, 2026, TRUE, 1)>>,
     <<Printed(1, 5, 3, 2026, TRUE, 1), Printed(3, 13, 5, 2035, FALSE, 1)>>,
     <<Printed(3, 13, 5, 2035, FALSE, 1), Printed(1, 5, 3, 2026, TRUE, 1)>>,
     <<Printed(1, 1, 1, 2028, TRUE, 1), Printed(1, 5, 3, 2026, TRUE, 1)>>}

Idle ==
    /\ parsed = Outcome("not run", 0, 0, 0)
    /\ extracted = NotRun
    /\ pass = 1
    /\ calls = <<>>
    /\ texts = <<>>
    /\ confs = <<>>
    /\ ocr_conf = Frac(0, 1)
    /\ now = Started
    /\ best = None
    /\ result = NoResult
    /\ AppIdle

(***************************************************************************)
(* The extractor on its own                                                *)
(***************************************************************************)
InitExtract ==
    /\ printed \in Labels
    /\ image = [is_file |-> TRUE, decodable |-> TRUE]
    /\ text = Join(printed)
    /\ pc = "ready"
    /\ Idle

\* a call of DateExtractor.parse_date on the text
ParseDate ==
    /\ pc = "ready"
    /\ parsed' = parse_date(text)
    /\ pc' = "parsed"
    /\ UNCHANGED <<appVars, calls, printed, image, text, extracted, pass, texts, confs, ocr_conf,
                   now, best, result>>

\* a call of DateExtractor.extract_potential_dates on the text
ExtractPotentialDates ==
    /\ pc = "ready"
    /\ extracted' = extract_potential_dates(text)
    /\ pc' = "extracted"
    /\ UNCHANGED <<appVars, calls, printed, image, text, parsed, pass, texts, confs, ocr_conf,
                   now, best, result>>

NextExtract == ParseDate \/ ExtractPotentialDates

SpecExtract == InitExtract /\ [][NextExtract]_vars

(***************************************************************************)
(* The selector on its own.  It is given candidates whose dates lie 1, 10, *)
(* 400, 540, 541, 1825, 1826 and 2000 days after 4 March 2026, with the    *)
(* confidence the extractor gives and, for two of them, a lower one.       *)
(***************************************************************************)
Candidate(y, m, d, conf) ==
    [date       |-> [year |-> y, month |-> m, day |-> d],
     raw        |-> Render(Printed(1, d, m, y, TRUE, 1)),
     confidence |-> conf]

CandidatePool ==
    {Candidate(2026, 3, 5, BaseConfidence),  Candidate(2026, 3, 14, BaseConfidence),
     Candidate(2027, 4, 8, BaseConfidence),  Candidate(2027, 8, 26, BaseConfidence),
     Candidate(2027, 8, 27, BaseConfidence), Candidate(2031, 3, 3, BaseConfidence),
     Candidate(2031, 3, 4, BaseConfidence),  Candidate(2031, 8, 25, BaseConfidence),
     Candidate(2026, 3, 14, 600),            Candidate(2027, 8, 27, 600)}

\* the most candidates in one list
MaxCandidates == 3

CandidateLists == UNION {SeqsOf(CandidatePool, n) : n \in 0..MaxCandidates}

InitSelect ==
    /\ printed = <<>>
    /\ image = [is_file |-> TRUE, decodable |-> TRUE]
    /\ text = <<>>
    /\ pc = "given"
    /\ parsed = Outcome("not run", 0, 0, 0)
    /\ extracted \in {[outcome |-> "returned", candidates |-> c] : c \in CandidateLists}
    /\ pass = 1
    /\ calls = <<>>
    /\ texts = <<>>
    /\ confs = <<>>
    /\ ocr_conf = Frac(0, 1)
    /\ now = Started
    /\ best = None
    /\ result = NoResult
    /\ AppIdle

\* a call of DateExtractor.select_best_expiry on the candidates; line 159
\* reads the clock
SelectBestExpiry ==
    /\ pc = "given"
    /\ \E n \in Instants :
          /\ NotBefore(n, now)
          /\ now' = n
          /\ best' = select_best_expiry(extracted.candidates, n)
          /\ extracted' = [extracted EXCEPT !.candidates = CandidatesAfter(@, n)]
    /\ pc' = "selected"
    /\ UNCHANGED <<appVars, calls, printed, image, text, parsed, pass, texts, confs,
                   ocr_conf, result>>

\* a second call on the same list, the clock standing still; what it returns
\* is kept in reply
SelectAgain ==
    /\ pc = "selected"
    /\ reply' = [kind |-> "selected", best |-> select_best_expiry(extracted.candidates, now)]
    /\ extracted' = [extracted EXCEPT !.candidates = CandidatesAfter(@, now)]
    /\ pc' = "reselected"
    /\ UNCHANGED <<calls, printed, image, text, parsed, pass, texts, confs, ocr_conf, now,
                   best, result, tesseract_cmd, detectors, temp_file, sessions, rows>>

NextSelect == SelectBestExpiry \/ SelectAgain

SpecSelect == InitSelect /\ [][NextSelect]_vars

(***************************************************************************)
(* FoodExpiryDetector.extract_expiry_date, statement by statement          *)
(***************************************************************************)
Init ==
    /\ printed \in PhotoLabels
    /\ image \in Images
    /\ text = <<>>
    /\ pc = "load"
    /\ Idle

Propagated(e) ==
    /\ pc' = "raised"
    /\ UNCHANGED result

\* except Exception as e: return the failure of lines 262-266
Caught(e) ==
    /\ result' = CaughtFailure(e)
    /\ pc' = "returned"

LoadImageUnchecked ==
    /\ pc = "load"
    /\ pc' = "preprocess"
    /\ UNCHANGED <<appVars, calls, printed, image, text, parsed, extracted, pass, texts, confs,
                   ocr_conf, now, best, result>>

\* line 222: ImagePreprocessor.load_image
LoadImage ==
    /\ pc = "load"
    /\ IF ~image.is_file THEN Caught("Image not found")
       ELSE IF ~image.decodable THEN Caught("Failed to load image")
       ELSE pc' = "preprocess" /\ UNCHANGED result
    /\ UNCHANGED <<appVars, calls, printed, image, text, parsed, extracted, pass, texts, confs,
                   ocr_conf, now, best>>

\* line 223: ImagePreprocessor.preprocess; a cv2 call either returns or
\* raises cv2.error
Preprocess ==
    /\ pc = "preprocess"
    /\ \E raises \in BOOLEAN :
          IF raises THEN Caught("OpenCV error") ELSE pc' = "ocr" /\ UNCHANGED result
    /\ UNCHANGED <<appVars, calls, printed, image, text, parsed, extracted, pass, texts, confs,
                   ocr_conf, now, best>>

OcrPassAborts ==
    /\ pc = "ocr"
    /\ pass <= Len(Profiles)
    /\ \E o \in PassOutcomes(Join(printed)) :
          /\ calls' = Append(calls, Call(Profiles[pass], o))
          /\ IF ~o.raises /\ NotBlank(o.text)
             THEN /\ texts' = Append(texts, o.text)
                  /\ confs' = Append(confs, PassConfidence(o.conf))
             ELSE UNCHANGED <<texts, confs>>
          /\ pass' = IF o.raises THEN Len(Profiles) + 1 ELSE pass + 1
    /\ UNCHANGED <<appVars, printed, image, pc, text, parsed, extracted, ocr_conf, now,
                   best, result>>

\* lines 199-213: one iteration of the loop over the profiles
OcrPass ==
    /\ pc = "ocr"
    /\ pass <= Len(Profiles)
    /\ \E o \in PassOutcomes(Join(printed)) :
          /\ calls' = Append(calls, Call(Profiles[pass], o))
          /\ IF ~o.raises /\ NotBlank(o.text)
             THEN /\ texts' = Append(texts, o.text)
                  /\ confs' = Append(confs, PassConfidence(o.conf))
             ELSE UNCHANGED <<texts, confs>>
    /\ pass' = pass + 1
    /\ UNCHANGED <<appVars, printed, image, pc, text, parsed, extracted, ocr_conf, now,
                   best, result>>

\* lines 215-218 and the assignment of line 225
ExtractTextReturn ==
    /\ pc = "ocr"
    /\ pass > Len(Profiles)
    /\ IF texts = <<>>
       THEN text' = <<>> /\ ocr_conf' = Frac(0, 1)
       ELSE text' = JoinTexts(texts) /\ ocr_conf' = FracMean(confs)
    /\ pc' = "extract"
    /\ UNCHANGED <<appVars, calls, printed, image, parsed, extracted, pass, texts, confs, now,
                   best, result>>

\* str(e) of what extract_potential_dates raises
Message(e) ==
    IF e = "TypeError"
    THEN "'<' not supported between instances of 'str' and 'int'"
    ELSE "not enough values to unpack (expected 3, got 2)"

\* lines 228-236
ExtractCandidates ==
    /\ pc = "extract"
    /\ extracted' = extract_potential_dates(text)
    /\ IF extracted'.outcome # "returned" THEN Caught(Message(extracted'.outcome))
       ELSE IF extracted'.candidates = <<>>
       THEN result' = NoPatternFailure(text, ocr_conf) /\ pc' = "returned"
       ELSE pc' = "select" /\ UNCHANGED result
    /\ UNCHANGED <<appVars, calls, printed, image, text, parsed, pass, texts, confs, ocr_conf,
                   now, best>>

\* lines 238-246; select_best_expiry reads the clock at line 159
SelectBest ==
    /\ pc = "select"
    /\ \E n \in Instants :
          /\ NotBefore(n, now)
          /\ now' = n
          /\ best' = select_best_expiry(extracted.candidates, n)
    /\ IF best' = None
       THEN result' = NoneValidFailure(extracted.candidates, ocr_conf) /\ pc' = "returned"
       ELSE pc' = "package" /\ UNCHANGED result
    /\ UNCHANGED <<appVars, calls, printed, image, text, parsed, extracted, pass, texts, confs,
                   ocr_conf>>

\* lines 248-258; line 248 reads the clock again
ReturnSuccess ==
    /\ pc = "package"
    /\ \E n \in Instants :
          /\ NotBefore(n, now)
          /\ now' = n
          /\ result' = Success(best, DaysUntil(best.date, n), ocr_conf)
    /\ pc' = "returned"
    /\ UNCHANGED <<appVars, calls, printed, image, text, parsed, extracted, pass, texts, confs,
                   ocr_conf, best>>

Next ==
    \/ LoadImage
    \/ Preprocess
    \/ OcrPass
    \/ ExtractTextReturn
    \/ ExtractCandidates
    \/ SelectBest
    \/ ReturnSuccess

Spec == Init /\ [][Next]_vars

(***************************************************************************)
(* The excerpt of the recognised text.  The call is taken up at line 228   *)
(* with a recognised text without a date, of every length up to            *)
(* MaxTextLen.                                                             *)
(***************************************************************************)
\* the longest recognised text
MaxTextLen == 210

\* n characters, the last three of them tail
Filled(n, body, tail) == [i \in 1..n |-> IF i > n - 3 THEN tail ELSE body]

LongTexts ==
    {Filled(n, "x", "x") : n \in 0..MaxTextLen}
    \cup {Filled(n, "x", ".") : n \in 0..MaxTextLen}
    \cup {Filled(n, " ", "y") : n \in 0..MaxTextLen}

InitExcerpt ==
    /\ printed = <<>>
    /\ image = [is_file |-> TRUE, decodable |-> TRUE]
    /\ text \in LongTexts
    /\ pc = "extract"
    /\ parsed = Outcome("not run", 0, 0, 0)
    /\ extracted = NotRun
    /\ pass = Len(Profiles) + 1
    /\ calls = <<>>
    /\ texts = <<text>>
    /\ confs = <<Frac(17, 20)>>
    /\ ocr_conf = Frac(17, 20)
    /\ now = Started
    /\ best = None
    /\ result = NoResult
    /\ AppIdle

NextExcerpt == ExtractCandidates

SpecExcerpt == InitExcerpt /\ [][NextExcerpt]_vars

(***************************************************************************)
(* The OCR executable.  pytesseract keeps the command it runs in one       *)
(* module attribute; the module sets it when imported and every            *)
(* FoodExpiryDetector that is given a path sets it again.                  *)
(***************************************************************************)
TESSERACT_PATH == "C:\\Program Files\\Tesseract-OCR\\tesseract.exe"

\* the tesseract_cmd a detector is constructed with; "" stands for None
CmdArgs == {"", TESSERACT_PATH, "/opt/tesseract5/bin/tesseract"}

\* the most detectors constructed
MaxDetectors == 3

\* lines 27-33: after the import the command is TESSERACT_PATH when that is
\* a file and the default of pytesseract otherwise
InitDetectors ==
    /\ printed = <<>>
    /\ image = [is_file |-> TRUE, decodable |-> TRUE]
    /\ text = <<>>
    /\ pc = "imported"
    /\ parsed = Outcome("not run", 0, 0, 0)
    /\ extracted = NotRun
    /\ pass = 1
    /\ calls = <<>>
    /\ texts = <<>>
    /\ confs = <<>>
    /\ ocr_conf = Frac(0, 1)
    /\ now = Started
    /\ best = None
    /\ result = NoResult
    /\ tesseract_cmd \in {"tesseract", TESSERACT_PATH}
    /\ detectors = <<>>
    /\ temp_file = "missing"
    /\ sessions = <<>>
    /\ rows = <<>>
    /\ reply = NoReply

\* lines 181-185: FoodExpiryDetector(tesseract_cmd=cmd)
Construct(cmd) ==
    /\ Len(detectors) < MaxDetectors
    /\ tesseract_cmd' = IF cmd # "" THEN cmd ELSE tesseract_cmd
    /\ detectors' = Append(detectors, [arg |-> cmd, configured |-> tesseract_cmd',
                                        used |-> "none"])
    /\ UNCHANGED <<ocrVars, temp_file, sessions, rows, reply>>

NewDetector == \E cmd \in CmdArgs : Construct(cmd)

\* lines 199-205: the detector d runs the OCR capability; pytesseract runs
\* the command its module attribute names at that moment
RunOcr(d) ==
    /\ detectors' = [detectors EXCEPT ![d].used = tesseract_cmd]
    /\ UNCHANGED <<ocrVars, tesseract_cmd, temp_file, sessions, rows, reply>>

ExtractText == \E d \in DOMAIN detectors : RunOcr(d)

NextDetectors == NewDetector \/ ExtractText

SpecDetectors == InitDetectors /\ [][NextDetectors]_vars

(***************************************************************************)
(* FoodDatabase: the table food_items.  A row keeps its dates as the text  *)
(* isoformat gives; ids are those of INTEGER PRIMARY KEY AUTOINCREMENT.    *)
(***************************************************************************)
RECURSIVE LStrip(_)
LStrip(t) == IF t # <<>> /\ t[1] \in Space THEN LStrip(Tail(t)) ELSE t

RECURSIVE RStrip(_)
RStrip(t) == IF t # <<>> /\ t[Len(t)] \in Space THEN RStrip(SubSeq(t, 1, Len(t) - 1)) ELSE t

StripLeftOnly(t) == LStrip(t)

\* str.strip
Strip(t) == RStrip(LStrip(t))

\* the dataclass FoodItem, with the fields the claims speak of
FoodItem(name, purchase_date, expiry_date, status, ocr_confidence, image_path) ==
    [name |-> name, purchase_date |-> purchase_date, expiry_date |-> expiry_date,
     status |-> status, ocr_confidence |-> ocr_confidence, image_path |-> image_path]

\* expiry_date=None
NoDate == [kind |-> "None"]

\* nothing deletes a row, so the next AUTOINCREMENT id is the row count + 1
NextId(rs) == Len(rs) + 1

\* lines 147-167: the row inserted for food
Row(id, food) ==
    [id |-> id, name |-> Strip(food.name), purchase_date |-> food.purchase_date,
     expiry_date |-> isoformat(food.expiry_date), status |-> food.status,
     ocr_confidence |-> food.ocr_confidence, image_path |-> food.image_path]

\* line 176: DatabaseError(f"Failed to add food item '{food.name}': {e}")
DatabaseError(name, e) == [kind |-> "DatabaseError", name |-> name, cause |-> e]

\* lines 135-176: the table and the outcome after add_food_item(food).  An
\* empty name raises ValueError at line 143 and a missing expiry date
\* violates NOT NULL at line 147; both are rolled back and raised as
\* DatabaseError
add_food_item(rs, food) ==
    IF Strip(food.name) = <<>>
    THEN [rows |-> rs, reply |-> DatabaseError(food.name, "Food name cannot be empty")]
    ELSE IF food.expiry_date.kind = "None"
    THEN [rows |-> rs,
          reply |-> DatabaseError(Strip(food.name),
                       "NOT NULL constraint failed: food_items.expiry_date")]
    ELSE [rows |-> Append(rs, Row(NextId(rs), food)),
          reply |-> [kind |-> "id", id |-> NextId(rs)]]

\* the order of the characters of a timestamp in the BINARY collation
CharOrder == <<" ", "+", "-", ".", "0", "1", "2", "3", "4", "5", "6", "7", "8", "9", ":", "T">>

CharCode(c) == CHOOSE i \in DOMAIN CharOrder : CharOrder[i] = c

\* a < b as SQLite compares two TEXT values
RECURSIVE TextLess(_, _)
TextLess(a, b) ==
    IF b = <<>> THEN FALSE
    ELSE IF a = <<>> THEN TRUE
    ELSE IF Head(a) # Head(b) THEN CharCode(Head(a)) < CharCode(Head(b))
    ELSE TextLess(Tail(a), Tail(b))

TextLessEq(a, b) == a = b \/ TextLess(a, b)

\* now + timedelta(days=n), for 0 <= n <= 28
AddDays(dt, n) ==
    IF dt.day + n <= DaysInMonth(dt.year, dt.month) THEN [dt EXCEPT !.day = @ + n]
    ELSE IF dt.month < 12
    THEN [dt EXCEPT !.day = @ + n - DaysInMonth(dt.year, dt.month), !.month = @ + 1]
    ELSE [dt EXCEPT !.day = @ + n - 31, !.month = 1, !.year = @ + 1]

\* ORDER BY expiry_date ASC: r put into the sorted q, after the rows that
\* are not greater
RECURSIVE InsertByExpiry(_, _)
InsertByExpiry(q, r) ==
    IF q = <<>> THEN <<r>>
    ELSE IF TextLess(r.expiry_date, Head(q).expiry_date) THEN <<r>> \o q
    ELSE <<Head(q)>> \o InsertByExpiry(Tail(q), r)

RECURSIVE OrderByExpiry(_)
OrderByExpiry(q) ==
    IF q = <<>> THEN <<>>
    ELSE InsertByExpiry(OrderByExpiry(SubSeq(q, 1, Len(q) - 1)), q[Len(q)])

\* the WHERE clause of lines 215-217
InExpiryWindow(r, cutoff, now_iso) ==
    /\ r.status = "active"
    /\ TextLessEq(r.expiry_date, cutoff)
    /\ TextLess(now_iso, r.expiry_date)

RECURSIVE SelectWhere(_, _, _)
SelectWhere(rs, cutoff, now_iso) ==
    IF rs = <<>> THEN <<>>
    ELSE (IF InExpiryWindow(Head(rs), cutoff, now_iso) THEN <<Head(rs)>> ELSE <<>>)
         \o SelectWhere(Tail(rs), cutoff, now_iso)

\* lines 204-224, with the clock read at line 208 giving n
get_expiring_items(rs, days, n) ==
    OrderByExpiry(SelectWhere(rs, isoformat(AddDays(n, days)), isoformat(n)))

\* whole seconds from 1 January 2026 00:00 UTC to dt
UtcSeconds(dt) ==
    86400 * (Ordinal(dt.year, dt.month, dt.day) - Ordinal(2026, 1, 1))
    + 3600 * dt.hour + 60 * dt.minute + dt.second - 60 * dt.offset

\* (a - b).days, for aware a and b: the difference rounded down to days
DaysBetween(a, b) ==
    (UtcSeconds(a) - UtcSeconds(b) - (IF a.micro < b.micro THEN 1 ELSE 0)) \div 86400

Utc(y, m, d, hh, mi, ss, us) == DateTime(y, m, d, hh, mi, ss, us, TRUE, 0)

Naive(y, m, d) == DateTime(y, m, d, 0, 0, 0, 0, FALSE, 0)

\* the names, expiry dates and statuses of the items that are added
Names == {<<>>, <<" ">>, <<" ", "M", "i", "l", "k", " ">>}

StoreExpiries ==
    {NoDate,
     Naive(2026, 11, 5),
     Naive(2027, 1, 1),
     Utc(2026, 11, 8, 12, 0, 0, 0),
     Utc(2026, 11, 1, 20, 0, 0, 150565),
     DateTime(2026, 11, 2, 1, 0, 0, 0, TRUE, 330)}

Statuses == {"active", "consumed"}

\* the instants the clock of the store is read at
StoreNows ==
    {Utc(2026, 11, 1, 12, 0, 0, 0), Utc(2026, 11, 1, 20, 0, 0, 500000),
     Utc(2026, 11, 5, 0, 0, 0, 0)}

WindowDays == {0, 1, 7}

\* the most rows in the table
MaxRows == 2

\* the expiry texts given to add-manual
ExpiryTexts ==
    {<<"2", "0", "2", "6", "-", "0", "2", "-", "0", "5">>,
     <<"2", "0", "2", "6", "-", "1", "1", "-", "0", "5">>,
     <<"0", "5", "/", "1", "1", "/", "2", "0", "2", "6">>,
     <<"2", "0", "2", "6", "-", "1", "1", "-", "0", "5", "T", "0", "0", ":", "0", "0", ":",
       "0", "0", "+", "0", "0", ":", "0", "0">>}

InitStore ==
    /\ printed = <<>>
    /\ image = [is_file |-> TRUE, decodable |-> TRUE]
    /\ text = <<>>
    /\ pc = "open"
    /\ Idle

\* a call of FoodDatabase.add_food_item
AddFoodItem ==
    /\ Len(rows) < MaxRows
    /\ \E name \in Names, expiry \in StoreExpiries, status \in Statuses :
          /\ rows' = add_food_item(rows, FoodItem(name, NoDate, expiry, status, 0, "")).rows
          /\ reply' = add_food_item(rows, FoodItem(name, NoDate, expiry, status, 0, "")).reply
    /\ UNCHANGED <<ocrVars, tesseract_cmd, detectors, temp_file, sessions>>

\* a call of FoodDatabase.get_expiring_items
GetExpiringItems ==
    /\ \E days \in WindowDays, n \in StoreNows :
          reply' = [kind |-> "items", days |-> days, now |-> n,
                    items |-> get_expiring_items(rows, days, n)]
    /\ UNCHANGED <<ocrVars, tesseract_cmd, detectors, temp_file, sessions, rows>>

\* src/Food_Tracker.py lines 150-155: what add_food_manual returns for an
\* exception
ManualFailure(name, expiry_text, message) ==
    [kind |-> "manual", name |-> name, expiry |-> expiry_text, success |-> FALSE,
     message |-> message]

\* src/Food_Tracker.py lines 143-148
ManualSuccess(name, expiry_text, id, days) ==
    [kind |-> "manual", name |-> name, expiry |-> expiry_text, success |-> TRUE,
     item_id |-> id, days_remaining |-> days]

\* src/Food_Tracker.py lines 115-155, with the clock giving n.  Comparing a
\* naive expiry with now_utc() at line 121 raises TypeError
add_food_manual(rs, name, expiry_text, n) ==
    IF Strip(name) = <<>>
    THEN [rows |-> rs,
          reply |-> ManualFailure(name, expiry_text, "Invalid input: Food name cannot be empty")]
    ELSE IF fromisoformat(Strip(expiry_text)).kind = "ValueError"
    THEN [rows |-> rs,
          reply |-> ManualFailure(name, expiry_text, "Invalid input: Invalid isoformat string")]
    ELSE IF ~fromisoformat(Strip(expiry_text)).aware
    THEN [rows |-> rs,
          reply |-> ManualFailure(name, expiry_text,
                       "Error: can't compare offset-naive and offset-aware datetimes")]
    ELSE [rows |-> add_food_item(rs, FoodItem(Strip(name), n,
                       fromisoformat(Strip(expiry_text)), "active", 0, "")).rows,
          reply |-> ManualSuccess(name, expiry_text, NextId(rs),
                       DaysBetween(fromisoformat(Strip(expiry_text)), n))]

\* a call of FoodExpiryTrackerApp.add_food_manual
AddFoodManual ==
    /\ Len(rows) < MaxRows
    /\ \E name \in Names, expiry_text \in ExpiryTexts, n \in StoreNows :
          /\ rows' = add_food_manual(rows, name, expiry_text, n).rows
          /\ reply' = add_food_manual(rows, name, expiry_text, n).reply
    /\ UNCHANGED <<ocrVars, tesseract_cmd, detectors, temp_file, sessions>>

NextStore == AddFoodItem \/ GetExpiringItems \/ AddFoodManual

SpecStore == InitStore /\ [][NextStore]_vars

(***************************************************************************)
(* FoodExpiryTrackerApp.add_food_from_image (src/Food_Tracker.py): the     *)
(* check of the path, the call of the detector, statement by statement as  *)
(* above, and the insertion of the item.                                   *)
(***************************************************************************)
\* the path the photograph is given by
ImagePath == "data/labels/milk.jpg"

\* the name argument: None, a blank name and a name
NameArgs == {<<>>, <<" ">>, <<" ", "M", "i", "l", "k", " ">>}

UnknownFood == <<"U", "n", "k", "n", "o", "w", "n", " ", "F", "o", "o", "d">>

\* name or "Unknown Food"
NameOr(name) == IF name = <<>> THEN UnknownFood ELSE name

ImageFailure(message) == [kind |-> "image", success |-> FALSE, message |-> message]

\* lines 89-96
ImageSuccess(id, ocr_result) ==
    [kind |-> "image", success |-> TRUE, item_id |-> id, expiry_date |-> ocr_result.date,
     days_remaining |-> ocr_result.days_until_expiry, confidence |-> ocr_result.confidence]

\* lines 67-79: the item built from a successful extraction; line 75 takes
\* ocr_result.get('confidence', 0.0)
ImageItem(name, ocr_result, n) ==
    FoodItem(Strip(NameOr(name)), n, fromisoformat(ocr_result.date), "active",
             ocr_result.confidence, ImagePath)

\* lines 57-103 after the detector has returned ocr_result, with the clock
\* giving n at line 69.  The alerts of lines 83-87 go to
\* AlertSystem.log_alert, which changes no item
add_food_from_image(rs, name, ocr_result, n) ==
    IF ~ocr_result.success
    THEN [rows |-> rs, reply |-> ImageFailure("OCR failed")]
    ELSE IF fromisoformat(ocr_result.date).kind = "ValueError"
    THEN [rows |-> rs, reply |-> ImageFailure("Invalid expiry date format")]
    ELSE IF add_food_item(rs, ImageItem(name, ocr_result, n)).reply.kind = "DatabaseError"
    THEN [rows |-> rs, reply |-> ImageFailure("Error: Failed to add food item")]
    ELSE [rows |-> add_food_item(rs, ImageItem(name, ocr_result, n)).rows,
          reply |-> ImageSuccess(NextId(rs), ocr_result)]

InitApp ==
    /\ printed \in PhotoLabels
    /\ image \in Images
    /\ text = <<>>
    /\ pc = "app"
    /\ Idle

\* lines 51-52: a path that is no file is answered without the detector
CheckImagePath ==
    /\ pc = "app"
    /\ IF ~image.is_file
       THEN reply' = ImageFailure("Image not found") /\ pc' = "done"
       ELSE pc' = "load" /\ UNCHANGED reply
    /\ UNCHANGED <<calls, printed, image, text, parsed, extracted, pass, texts, confs,
                   ocr_conf, now, best, result, tesseract_cmd, detectors, temp_file, sessions, rows>>

\* lines 57-103, once extract_expiry_date has returned
AddFromImage ==
    /\ pc = "returned"
    /\ \E name \in NameArgs, n \in Instants :
          /\ NotBefore(n, now)
          /\ now' = n
          /\ rows' = add_food_from_image(rows, name, result, n).rows
          /\ reply' = add_food_from_image(rows, name, result, n).reply
    /\ pc' = "done"
    /\ UNCHANGED <<calls, printed, image, text, parsed, extracted, pass, texts, confs,
                   ocr_conf, best, result, tesseract_cmd, detectors, temp_file, sessions>>

NextApp ==
    \/ CheckImagePath
    \/ LoadImage
    \/ Preprocess
    \/ OcrPass
    \/ ExtractTextReturn
    \/ ExtractCandidates
    \/ SelectBest
    \/ ReturnSuccess
    \/ AddFromImage

SpecApp == InitApp /\ [][NextApp]_vars

(***************************************************************************)
(* The photo tab of the dashboard (src/app.py).  Every browser session     *)
(* runs the script on its own, and all of them run it in one process and   *)
(* one working directory, so temp.jpg is one file.  temp_file is what the  *)
(* file holds: "missing", "empty" after open(..., "wb") has truncated it,  *)
(* or the upload that was written last.                                    *)
(***************************************************************************)
\* the sessions that are open together
NumSessions == 2

\* the photographs that are uploaded
Uploads == {"milk.jpg", "yogurt.jpg"}

\* the expiry date printed on the label of a photograph
ExpiryOn(upload) ==
    IF upload = "milk.jpg" THEN FormatDate([year |-> 2026, month |-> 3, day |-> 5])
    ELSE FormatDate([year |-> 2026, month |-> 11, day |-> 5])

\* detector.extract_expiry_date("temp.jpg") when the file holds content:
\* load_image fails on a file that is missing or has no bytes
Analysis(content) ==
    IF content = "missing" THEN CaughtFailure("Image not found")
    ELSE IF content = "empty" THEN CaughtFailure("Failed to load image")
    ELSE [success |-> TRUE, date |-> ExpiryOn(content)]

IdleSession ==
    [pc |-> "idle", upload |-> "none", result |-> NoResult, shown |-> "none"]

InitDashboard ==
    /\ printed = <<>>
    /\ image = [is_file |-> TRUE, decodable |-> TRUE]
    /\ text = <<>>
    /\ pc = "dashboard"
    /\ Idle

\* a browser connects
OpenSession ==
    /\ Len(sessions) < NumSessions
    /\ sessions' = Append(sessions, IdleSession)
    /\ UNCHANGED <<ocrVars, tesseract_cmd, detectors, temp_file, rows, reply>>

\* line 20: the session's user chooses a photograph
Upload(s) ==
    /\ sessions[s].pc = "idle"
    /\ \E u \in Uploads :
          sessions' = [sessions EXCEPT ![s].upload = u, ![s].pc = "uploaded"]
    /\ UNCHANGED <<ocrVars, tesseract_cmd, detectors, temp_file, rows, reply>>

\* line 24: open("temp.jpg", "wb") creates or truncates the file
OpenTemp(s) ==
    /\ sessions[s].pc = "uploaded"
    /\ temp_file' = "empty"
    /\ sessions' = [sessions EXCEPT ![s].pc = "opened"]
    /\ UNCHANGED <<ocrVars, tesseract_cmd, detectors, rows, reply>>

\* line 25 and the end of the with block: the bytes of the upload are
\* written from the start of the file
WriteTemp(s) ==
    /\ sessions[s].pc = "opened"
    /\ temp_file' = sessions[s].upload
    /\ sessions' = [sessions EXCEPT ![s].pc = "written"]
    /\ UNCHANGED <<ocrVars, tesseract_cmd, detectors, rows, reply>>

\* line 28: the detector reads temp.jpg
Analyze(s) ==
    /\ sessions[s].pc = "written"
    /\ sessions' = [sessions EXCEPT ![s].result = Analysis(temp_file), ![s].pc = "analyzed"]
    /\ UNCHANGED <<ocrVars, tesseract_cmd, detectors, temp_file, rows, reply>>

\* lines 30-34: st.success and st.image("temp.jpg"), or st.error
Show(s) ==
    /\ sessions[s].pc = "analyzed"
    /\ sessions' = [sessions EXCEPT
                       ![s].shown = IF sessions[s].result.success THEN temp_file ELSE "error",
                       ![s].pc = "shown"]
    /\ UNCHANGED <<ocrVars, tesseract_cmd, detectors, temp_file, rows, reply>>

NextDashboard ==
    \/ OpenSession
    \/ \E s \in DOMAIN sessions : Upload(s)
    \/ \E s \in DOMAIN sessions : OpenTemp(s)
    \/ \E s \in DOMAIN sessions : WriteTemp(s)
    \/ \E s \in DOMAIN sessions : Analyze(s)
    \/ \E s \in DOMAIN sessions : Show(s)

SpecDashboard == InitDashboard /\ [][NextDashboard]_vars

(***************************************************************************)
(* Properties                                                              *)
(***************************************************************************)
\* the calendar, as the claims mean it
IsCalendarDate(y, m, d) ==
    /\ m \in 1..12
    /\ d >= 1
    /\ d <= CASE m \in {1, 3, 5, 7, 8, 10, 12} -> 31
              [] m \in {4, 6, 9, 11} -> 30
              [] OTHER -> IF (y % 4 = 0 /\ y % 100 # 0) \/ y % 400 = 0 THEN 29 ELSE 28

InWindow(y) == 2020 <= y /\ y <= 2035

\* p prints a real date of the years 2020..2035
PlausibleDate(p) == IsCalendarDate(p.y, p.m, p.d) /\ InWindow(p.y)

DateOf(p) == [year |-> p.y, month |-> p.m, day |-> p.d]

HasCandidate(date) ==
    \E i \in DOMAIN extracted.candidates : extracted.candidates[i].date = date

\* C1: a valid date of 2020..2035 printed in any of the seven shapes is among
\* the candidates extract_potential_dates returns
C1_EveryShapeExtracted ==
    (pc = "extracted" /\ Len(printed) = 1 /\ PlausibleDate(printed[1]))
        => (extracted.outcome = "returned" /\ HasCandidate(DateOf(printed[1])))

\* C2: a date of a year outside 2020..2035 printed in a supported shape gives
\* no candidate
C2_OutOfWindowRejected ==
    (/\ pc = "extracted"
     /\ Len(printed) = 1
     /\ IsCalendarDate(printed[1].y, printed[1].m, printed[1].d)
     /\ ~InWindow(printed[1].y))
        => extracted.candidates = <<>>

\* C3: numeric fields a, b before the year are read as day a, month b when
\* 1 <= a <= 31 and 1 <= b <= 12, and as day b, month a otherwise; so
\* 13-05-2026 and 05-13-2026 are both 13 May and 05-03-2026 is 5 March
C3_DayMonthOrder ==
    /\ (pc = "parsed" /\ Len(printed) = 1 /\ printed[1].shape \in {1, 3, 6})
          => /\ parsed.kind \in {"date", "none"}
             /\ IF /\ 1 <= printed[1].d /\ printed[1].d <= 31
                   /\ 1 <= printed[1].m /\ printed[1].m <= 12
                THEN parsed.day = printed[1].d /\ parsed.month = printed[1].m
                ELSE parsed.day = printed[1].m /\ parsed.month = printed[1].d
    /\ (pc = "parsed" /\ text = <<"1", "3", "-", "0", "5", "-", "2", "0", "2", "6">>)
          => parsed = Outcome("date", 2026, 5, 13)
    /\ (pc = "parsed" /\ text = <<"0", "5", "-", "1", "3", "-", "2", "0", "2", "6">>)
          => parsed = Outcome("date", 2026, 5, 13)
    /\ (pc = "parsed" /\ text = <<"0", "5", "-", "0", "3", "-", "2", "0", "2", "6">>)
          => parsed = Outcome("date", 2026, 3, 5)

C3_Swapped ==
    /\ pc = "parsed"
    /\ text = <<"0", "5", "-", "1", "3", "-", "2", "0", "2", "6">>
    /\ parsed.kind = "date"
    /\ parsed.day = 13
    /\ parsed.month = 5

\* C4: a Y-M-D date with a four-digit year, bare or after a label keyword,
\* is read as year, month, day and gives a candidate with that date when the
\* year is in 2020..2035
C4_IsoDateExtracted ==
    (/\ pc = "extracted"
     /\ Len(printed) = 1
     /\ printed[1].shape \in {2, 7}
     /\ PlausibleDate(printed[1]))
        => (extracted.outcome = "returned" /\ HasCandidate(DateOf(printed[1])))

\* C5: a date printed with a month name, day first or month first, gives a
\* candidate with the month the name stands for, the day and the year
C5_MonthNameExtracted ==
    (/\ pc = "extracted"
     /\ Len(printed) = 1
     /\ printed[1].shape \in {4, 5}
     /\ PlausibleDate(printed[1]))
        => (extracted.outcome = "returned" /\ HasCandidate(DateOf(printed[1])))

\* C6: extract_potential_dates raises for no text
C6_NeverRaises == pc = "extracted" => extracted.outcome = "returned"

\* C7: a two-digit year below 50 is read as 2000 + value and one of 50..99 as
\* 1900 + value (01-01-49 is 2049, 01-01-50 is 1950), so a two-digit year
\* gives a candidate only when it is 20..35
C7_TwoDigitYear ==
    /\ (/\ pc = "parsed"
        /\ Len(printed) = 1
        /\ printed[1].shape \in {1, 3, 6}
        /\ ~printed[1].wide)
          => /\ parsed.year = IF printed[1].y % 100 < 50
                              THEN 2000 + (printed[1].y % 100)
                              ELSE 1900 + (printed[1].y % 100)
             /\ parsed.kind = "date"
                   => (20 <= printed[1].y % 100 /\ printed[1].y % 100 <= 35)
    /\ (/\ pc = "extracted"
        /\ Len(printed) = 1
        /\ printed[1].shape \in {1, 3, 6}
        /\ ~printed[1].wide
        /\ extracted.candidates # <<>>)
          => (20 <= printed[1].y % 100 /\ printed[1].y % 100 <= 35)
    /\ (pc = "parsed" /\ text = <<"0", "1", "-", "0", "1", "-", "4", "9">>)
          => parsed = Outcome("none", 2049, 1, 1)
    /\ (pc = "parsed" /\ text = <<"0", "1", "-", "0", "1", "-", "5", "0">>)
          => parsed = Outcome("none", 1950, 1, 1)

C7_Pivot ==
    /\ pc = "parsed"
    /\ text = <<"0", "1", "-", "0", "1", "-", "5", "0">>
    /\ parsed.kind = "none"
    /\ parsed.year = 1950

BestBefore == <<"B", "E", "S", "T", " ", "B", "E", "F", "O", "R", "E", ":", " ", "0", "5", "/", "1", "1", "/", "2", "0", "2", "6">>

\* C8 as stated: the recognised text BEST BEFORE: 05/11/2026 gives exactly
\* one candidate, 5 November 2026, and the call returns success with the
\* date 2026-11-05
C8_OneCandidate ==
    (pc = "returned" /\ text = BestBefore)
        => /\ Len(extracted.candidates) = 1
           /\ extracted.candidates[1].date = [year |-> 2026, month |-> 11, day |-> 5]
           /\ result.success
           /\ result.date = <<"2", "0", "2", "6", "-", "1", "1", "-", "0", "5">>

\* C8 as amended: the recognised text BEST BEFORE: 05/11/2026 gives exactly
\* two candidates, both 5 November 2026, the first with the bare date as its
\* raw text and the second with the keyword in it, and the call returns
\* success with the date 2026-11-05
C8_TwoCandidates ==
    (pc = "returned" /\ text = BestBefore)
        => /\ extracted.candidates =
                <<[date |-> [year |-> 2026, month |-> 11, day |-> 5],
                   raw |-> <<"0", "5", "/", "1", "1", "/", "2", "0", "2", "6">>,
                   confidence |-> 850],
                  [date |-> [year |-> 2026, month |-> 11, day |-> 5],
                   raw |-> BestBefore,
                   confidence |-> 850]>>
           /\ result.success
           /\ result.date = <<"2", "0", "2", "6", "-", "1", "1", "-", "0", "5">>

C8_Returned ==
    /\ pc = "returned"
    /\ text = BestBefore
    /\ result.success
    /\ Len(extracted.candidates) = 2

\* C9: every candidate has a real calendar date of the years 2020..2035, the
\* confidence 0.85 and, as raw, a piece of the text that one of the patterns
\* matched
C9_CandidatesWellFormed ==
    pc = "extracted" =>
        \A i \in DOMAIN extracted.candidates :
            /\ IsCalendarDate(extracted.candidates[i].date.year,
                              extracted.candidates[i].date.month,
                              extracted.candidates[i].date.day)
            /\ InWindow(extracted.candidates[i].date.year)
            /\ extracted.candidates[i].confidence = 850
            /\ \E k \in 1..7 : \E m \in MatchesOf(k, text) :
                  SubSeq(text, m.start, m.stop - 1) = extracted.candidates[i].raw

C9_SeveralCandidates ==
    /\ pc = "extracted"
    /\ Len(printed) = 2
    /\ Len(extracted.candidates) >= 3

\* C10: when the text holds several valid dates of 2020..2035 in supported
\* shapes, each of them is among the candidates
C10_EveryDateFound ==
    (/\ pc = "extracted"
     /\ Len(printed) >= 2
     /\ \A j \in DOMAIN printed : PlausibleDate(printed[j]))
        => /\ extracted.outcome = "returned"
           /\ \A j \in DOMAIN printed : HasCandidate(DateOf(printed[j]))

\* midnight, at the start of the date
Midnight(date) == [day |-> Ordinal(date.year, date.month, date.day), part |-> 0]

\* the instant k days after n
Later(n, k) == [day |-> n.day + k, part |-> n.part]

\* floor((date - n) in days): the k with n + k days <= date < n + (k + 1) days
WholeDays(date, n) ==
    CHOOSE k \in {Midnight(date).day - n.day - 1, Midnight(date).day - n.day} :
        /\ NotBefore(Midnight(date), Later(n, k))
        /\ ~NotBefore(Midnight(date), Later(n, k + 1))

\* the adjusted confidence as the bands state it, in thousandths
Adjusted(base, days) ==
    IF 1 <= days /\ days <= 540
    THEN (IF 14 * base > 10000 THEN 1000 ELSE (14 * base) \div 10)
    ELSE IF 541 <= days /\ days <= 1825 THEN (9 * base) \div 10
    ELSE (3 * base) \div 10

AdjustedAt(cand, n) == Adjusted(cand.confidence, WholeDays(cand.date, n))

\* C11: the selector scores each candidate from days = floor((date - now) in
\* days): base * 1.4 clamped to at most 1.0 when 1 <= days <= 540, base * 0.9
\* when 541 <= days <= 1825, base * 0.3 otherwise; with base 0.85 that is
\* 1.0, 0.765 or 0.255, and every adjusted confidence is in [0, 1]
C11_Bands ==
    pc = "selected" =>
        /\ \A i \in DOMAIN extracted.candidates :
              /\ Score(extracted.candidates[i], now).days_until
                    = WholeDays(extracted.candidates[i].date, now)
              /\ Score(extracted.candidates[i], now).confidence
                    = AdjustedAt(extracted.candidates[i], now)
              /\ Score(extracted.candidates[i], now).confidence \in 0..1000
              /\ extracted.candidates[i].confidence = 850 =>
                    Score(extracted.candidates[i], now).confidence =
                       (IF WholeDays(extracted.candidates[i].date, now) \in 1..540 THEN 1000
                        ELSE IF WholeDays(extracted.candidates[i].date, now) \in 541..1825
                        THEN 765 ELSE 255)
        /\ best # None =>
              /\ best.days_until = WholeDays(best.date, now)
              /\ \E i \in DOMAIN extracted.candidates :
                    /\ best.date = extracted.candidates[i].date
                    /\ best.raw = extracted.candidates[i].raw
                    /\ best.confidence = AdjustedAt(extracted.candidates[i], now)

C11_AllBands ==
    /\ pc = "selected"
    /\ now = Instant(2026, 3, 4, 0)
    /\ extracted.candidates = <<Candidate(2031, 3, 4, 850), Candidate(2027, 8, 27, 850),
                                Candidate(2027, 8, 26, 850)>>
    /\ best.confidence = 1000
    /\ best.days_until = 540

\* C12: the selector returns the candidate with the greatest adjusted
\* confidence, the first listed among equals, and none exactly when the list
\* is empty; with days 10, 400 and 2000 and base 0.85, 400 wins over 2000 and
\* of 10 and 400 the one listed first wins
C12_MaxFirst ==
    pc = "selected" =>
        /\ best = None <=> extracted.candidates = <<>>
        /\ extracted.candidates # <<>> =>
              \E i \in DOMAIN extracted.candidates :
                  /\ best.date = extracted.candidates[i].date
                  /\ best.raw = extracted.candidates[i].raw
                  /\ best.confidence = AdjustedAt(extracted.candidates[i], now)
                  /\ \A j \in DOMAIN extracted.candidates :
                        AdjustedAt(extracted.candidates[j], now) <= best.confidence
                  /\ \A j \in 1..(i - 1) :
                        AdjustedAt(extracted.candidates[j], now) < best.confidence
        /\ (/\ now = Instant(2026, 3, 4, 0)
            /\ extracted.candidates = <<Candidate(2031, 8, 25, 850), Candidate(2027, 4, 8, 850)>>)
              => (best.days_until = 400 /\ best.confidence = 1000)
        /\ (/\ now = Instant(2026, 3, 4, 0)
            /\ extracted.candidates = <<Candidate(2026, 3, 14, 850), Candidate(2027, 4, 8, 850),
                                        Candidate(2031, 8, 25, 850)>>)
              => (best.days_until = 10 /\ best.confidence = 1000)
        /\ (/\ now = Instant(2026, 3, 4, 0)
            /\ extracted.candidates = <<Candidate(2031, 8, 25, 850), Candidate(2027, 4, 8, 850),
                                        Candidate(2026, 3, 14, 850)>>)
              => (best.days_until = 400 /\ best.confidence = 1000)

C12_TieFirst ==
    /\ pc = "selected"
    /\ now = Instant(2026, 3, 4, 0)
    /\ extracted.candidates = <<Candidate(2031, 8, 25, 850), Candidate(2027, 4, 8, 850),
                                Candidate(2026, 3, 14, 850)>>
    /\ best.days_until = 400
    /\ best.raw = Candidate(2027, 4, 8, 850).raw

\* the image is a file that decodes
GoodImage == image.is_file /\ image.decodable

\* _extract_text has returned to extract_expiry_date
AdapterReturned ==
    \/ pc \in {"extract", "select", "package"}
    \/ pc = "returned" /\ extracted # NotRun

\* C13: extract_expiry_date never lets an exception out: whichever stage
\* fails, it returns a failure with an error message, and a failure caught
\* at its boundary carries the OCR confidence 0.0
C13_NeverPropagates ==
    /\ pc \in {"load", "preprocess", "ocr", "extract", "select", "package", "returned"}
    /\ pc = "returned" =>
          /\ result # NoResult
          /\ ~result.success => result.error \notin {"", "not returned"}
          /\ (\/ ~GoodImage
              \/ extracted.outcome \in {"TypeError", "ValueError"}
              \/ (calls = <<>> /\ extracted = NotRun))
                => /\ ~result.success
                   /\ result.ocr_confidence = [num |-> 0, den |-> 1]
                   /\ DOMAIN result = {"success", "error", "ocr_confidence"}

C13_CaughtAfterOcr ==
    /\ pc = "returned"
    /\ extracted.outcome = "TypeError"
    /\ ocr_conf = [num |-> 17, den |-> 20]
    /\ ~result.success
    /\ result.ocr_confidence = [num |-> 0, den |-> 1]

MfgOld == <<"M", "F", "G", " ", "1", "2", "-", "0", "1", "-", "2", "0", "1", "9">>

\* C14: when extraction gives no candidate (the recognised text is empty or
\* has only dates outside the window, as MFG 12-01-2019), the call returns
\* the failure 'No date pattern matched in text' with the confidence the
\* adapter computed, and the selector is not called
C14_NoPatternFailure ==
    /\ (pc = "returned" /\ extracted.outcome = "returned" /\ extracted.candidates = <<>>)
          => /\ ~result.success
             /\ result.error = "No date pattern matched in text"
             /\ result.ocr_confidence = ocr_conf
             /\ best = None
             /\ now = Started
    /\ pc \in {"select", "package"} => extracted.candidates # <<>>
    /\ (pc = "returned" /\ extracted.outcome = "returned" /\ text \in {<<>>, MfgOld})
          => /\ extracted.candidates = <<>>
             /\ ~result.success
             /\ result.error = "No date pattern matched in text"

C14_OnlyOldDate ==
    /\ pc = "returned"
    /\ text = MfgOld
    /\ ~result.success
    /\ result.error = "No date pattern matched in text"
    /\ result.ocr_confidence = [num |-> 17, den |-> 20]

\* C15: the adapter runs the OCR capability under the profiles 6, 7, 11, 3
\* in this order, each once; a run that throws is left out, is not tried
\* again and does not stop the later runs; the adapter never raises, and
\* when all four runs fail it returns the empty text
C15_FourPasses ==
    /\ Len(calls) <= 4
    /\ \A i \in DOMAIN calls : calls[i].psm = <<6, 7, 11, 3>>[i]
    /\ pc = "ocr" => Len(calls) = pass - 1
    /\ (pc \notin {"load", "preprocess", "ocr"} /\ calls # <<>>) => Len(calls) = 4
    /\ AdapterReturned =>
          /\ Len(calls) = 4
          /\ Len(texts) <= Cardinality({i \in DOMAIN calls : ~calls[i].raises})
          /\ (\A i \in DOMAIN calls : calls[i].raises) => text = <<>>
    /\ (pc = "returned" /\ calls # <<>> /\ \A i \in DOMAIN calls : calls[i].raises)
          => /\ extracted.outcome = "returned"
             /\ result.error = "No date pattern matched in text"

C15_RunsAfterFailure ==
    /\ pc = "extract"
    /\ Len(calls) = 4
    /\ calls[1].raises
    /\ ~calls[2].raises
    /\ calls[3].raises
    /\ ~calls[4].raises
    /\ Len(texts) = 2

IsKept(c) == ~c.raises /\ \E i \in DOMAIN c.text : c.text[i] # " "

Known(c) == c >= 0

\* the sum of the means of the known token confidences of the runs, as the
\* fraction PercentNum / PercentDen
RECURSIVE PercentDen(_)
PercentDen(kept) ==
    IF kept = <<>> THEN 1
    ELSE (IF SelectSeq(Head(kept).conf, Known) = <<>> THEN 1
          ELSE Len(SelectSeq(Head(kept).conf, Known))) * PercentDen(Tail(kept))

RECURSIVE PercentNum(_)
PercentNum(kept) ==
    IF kept = <<>> THEN 0
    ELSE SumSeq(SelectSeq(Head(kept).conf, Known)) * PercentDen(Tail(kept))
         + (IF SelectSeq(Head(kept).conf, Known) = <<>> THEN 1
            ELSE Len(SelectSeq(Head(kept).conf, Known))) * PercentNum(Tail(kept))

RECURSIVE SpaceJoined(_)
SpaceJoined(kept) ==
    IF kept = <<>> THEN <<>>
    ELSE IF Len(kept) = 1 THEN kept[1].text
    ELSE kept[1].text \o <<" ">> \o SpaceJoined(Tail(kept))

\* Is the confidence conf the mean over the kept runs of their mean known
\* token confidence / 100 ?
IsMeanOf(conf, kept) ==
    conf.num * PercentDen(kept) * 100 * Len(kept) = conf.den * PercentNum(kept)

\* C16: a run is kept exactly when its text has a non-whitespace character;
\* its confidence is the mean of its token confidences >= 0, over 100, or 0.0
\* when there is none; the text returned is the kept texts joined by one
\* space in the order of the runs, and the confidence returned is the mean
\* of the confidences of the kept runs only
C16_KeptPasses ==
    /\ pc = "ocr" =>
          /\ Len(texts) = Len(SelectSeq(calls, IsKept))
          /\ Len(confs) = Len(texts)
          /\ \A i \in DOMAIN texts :
                /\ texts[i] = SelectSeq(calls, IsKept)[i].text
                /\ IsMeanOf(confs[i], <<SelectSeq(calls, IsKept)[i]>>)
    /\ (AdapterReturned /\ SelectSeq(calls, IsKept) # <<>>)
          => /\ text = SpaceJoined(SelectSeq(calls, IsKept))
             /\ IsMeanOf(ocr_conf, SelectSeq(calls, IsKept))

C16_MixedPasses ==
    /\ pc = "extract"
    /\ printed = <<Printed(1, 5, 3, 2026, TRUE, 1)>>
    /\ calls[2].text = <<" ">>
    /\ text = <<"E", "X", "P", " ", "0", "5", "-", "0", "3", "-", "2", "0", "2", "6">>
    /\ confs = <<[num |-> 0, den |-> 1], [num |-> 17, den |-> 20]>>
    /\ ocr_conf = [num |-> 17, den |-> 40]

\* C17: whatever the four runs give, the adapter returns a string and a
\* confidence in [0, 1]; when no run gives a text that is not blank, it
\* returns exactly the empty string and 0.0
C17_AdapterTotal ==
    AdapterReturned =>
        /\ DOMAIN text = 1..Len(text)
        /\ text # None
        /\ ocr_conf # None
        /\ ocr_conf.den > 0
        /\ 0 <= ocr_conf.num
        /\ ocr_conf.num <= ocr_conf.den
        /\ SelectSeq(calls, IsKept) = <<>> =>
              (text = <<>> /\ ocr_conf = [num |-> 0, den |-> 1])

C17_NothingRead ==
    /\ pc = "extract"
    /\ printed # <<>>
    /\ calls[1].raises
    /\ ~calls[2].raises
    /\ calls[2].text = <<" ">>
    /\ text = <<>>
    /\ ocr_conf = [num |-> 0, den |-> 1]

\* C18: in a success, days_until_expiry is the days_until the selector
\* computed for the chosen candidate, also when the clock moves on between
\* the selector and the packaging of the result, so the confidence and the
\* days reported are of the same band
C18_DaysFromSelector ==
    (pc = "returned" /\ result.success) =>
        /\ result.days_until_expiry = best.days_until
        /\ result.confidence = Adjusted(850, result.days_until_expiry)

\* C19: when the image is missing or does not decode, the call fails at
\* once with a failure that names the load problem; no later stage runs and
\* the load is not tried again
C19_LoadFailureIsFinal ==
    /\ ~GoodImage => pc \in {"load", "returned"}
    /\ (pc = "returned" /\ ~GoodImage) =>
          /\ ~result.success
          /\ result.error = (IF image.is_file THEN "Failed to load image"
                              ELSE "Image not found")
          /\ calls = <<>>
          /\ pass = 1
          /\ text = <<>>
          /\ extracted = NotRun
          /\ best = None
          /\ now = Started

C19_MissingFile ==
    /\ pc = "returned"
    /\ ~image.is_file
    /\ ~result.success
    /\ result.error = "Image not found"

\* C20: the selector returns a candidate for every list that is not empty,
\* so the call never returns 'Found dates but none valid as future expiry'
C20_NoneValidUnreachable ==
    /\ pc = "package" => best # None
    /\ (pc = "returned" /\ ~result.success) =>
          result.error # "Found dates but none valid as future expiry"
    /\ (pc = "returned" /\ extracted.candidates # <<>>) => result.success

C20_StaleDateChosen ==
    /\ pc = "returned"
    /\ extracted.candidates # <<>>
    /\ result.success
    /\ result.confidence = 255
    /\ result.days_until_expiry < 0

\* C21: detectors share no state that changes: constructing or using one
\* detector, also with another OCR executable, never changes the OCR
\* configuration of another, so every OCR run of a detector uses the
\* executable that detector was configured with
C21_DetectorsIndependent ==
    \A d \in DOMAIN detectors :
        detectors[d].used # "none" => detectors[d].used = detectors[d].configured

\* C22: in every success the date is the candidate's calendar date written
\* as YYYY-MM-DD, and reading that text back gives the same year, month and
\* day, at midnight, with no offset applied
C22_IsoRoundTrip ==
    (pc = "returned" /\ result.success) =>
        /\ Len(result.date) = 10
        /\ result.date[5] = "-"
        /\ result.date[8] = "-"
        /\ ToInt(SubSeq(result.date, 1, 4)) = best.date.year
        /\ ToInt(SubSeq(result.date, 6, 7)) = best.date.month
        /\ ToInt(SubSeq(result.date, 9, 10)) = best.date.day
        /\ fromisoformat(result.date) =
              [kind |-> "datetime", year |-> best.date.year, month |-> best.date.month,
               day |-> best.date.day, hour |-> 0, minute |-> 0, second |-> 0, micro |-> 0,
               aware |-> FALSE, offset |-> 0]
        /\ \E i \in DOMAIN extracted.candidates : extracted.candidates[i].date = best.date

C22_ShortYearLabel ==
    /\ pc = "returned"
    /\ result.success
    /\ best.raw = <<"1", "3", ".", "0", "5", ".", "3", "5">>
    /\ result.date = <<"2", "0", "3", "5", "-", "0", "5", "-", "1", "3">>

\* C23: in the failure for no candidate the excerpt is the whole recognised
\* text when that has at most 200 characters and else its first 200
\* characters followed by "..."; it is never longer than 203 characters and
\* the marker is added exactly when the text was cut (never to a whole text)
C23_ExcerptCapped ==
    (pc = "returned" /\ ~result.success /\ result.error = "No date pattern matched in text")
        => /\ Len(result.raw_text) <= 203
           /\ Len(text) <= 200 => result.raw_text = text
           /\ Len(text) > 200 =>
                 /\ Len(result.raw_text) = 203
                 /\ \A i \in 1..200 : result.raw_text[i] = text[i]
                 /\ \A i \in 201..203 : result.raw_text[i] = "."
           /\ result.raw_text # text \o <<".", ".", ".">>

C23_CutAt201 ==
    /\ pc = "returned"
    /\ Len(text) = 201
    /\ text[201] = "x"
    /\ ~result.success
    /\ Len(result.raw_text) = 203
    /\ result.raw_text[201] = "."

\* the instant a is before the instant b; a naive datetime is taken as UTC
Before(a, b) ==
    \/ UtcSeconds(a) < UtcSeconds(b)
    \/ UtcSeconds(a) = UtcSeconds(b) /\ a.micro < b.micro

\* the instant a is at most days days after the instant b
WithinDays(a, b, days) ==
    \/ UtcSeconds(a) < UtcSeconds(b) + 86400 * days
    \/ UtcSeconds(a) = UtcSeconds(b) + 86400 * days /\ a.micro <= b.micro

\* the row is active and expires after n and at most days days after n
Expiring(r, n, days) ==
    /\ r.status = "active"
    /\ Before(n, fromisoformat(r.expiry_date))
    /\ WithinDays(fromisoformat(r.expiry_date), n, days)

\* C29: get_expiring_items(days) returns exactly the rows with status active
\* whose expiry instant e has now < e <= now + days, in ascending order of
\* expiry, and changes nothing
C29_ExpiringExactly ==
    reply.kind = "items" =>
        /\ \A i \in DOMAIN rows :
              Expiring(rows[i], reply.now, reply.days)
                 <=> \E j \in DOMAIN reply.items : reply.items[j] = rows[i]
        /\ \A j \in DOMAIN reply.items : \E i \in DOMAIN rows : reply.items[j] = rows[i]
        /\ \A j, k \in DOMAIN reply.items :
              (j # k) => reply.items[j].id # reply.items[k].id
        /\ \A j, k \in DOMAIN reply.items :
              (j < k) => ~Before(fromisoformat(reply.items[k].expiry_date),
                                 fromisoformat(reply.items[j].expiry_date))

\* C30: add_food_item with an empty or blank name fails with DatabaseError
\* and leaves the table as it was; with a valid name every successful call
\* adds exactly one row, with the name stripped, and returns an id that no
\* earlier row has
C30_AddFoodItem ==
    /\ [](\A i \in DOMAIN rows :
            /\ rows[i].id = i
            /\ rows[i].name # <<>>
            /\ rows[i].name[1] # " "
            /\ rows[i].name[Len(rows[i].name)] # " ")
    /\ []((reply.kind = "DatabaseError" /\ reply.cause = "Food name cannot be empty")
            => \A i \in DOMAIN reply.name : reply.name[i] = " ")
    /\ [][/\ reply'.kind = "DatabaseError" => rows' = rows
          /\ reply'.kind = "id" =>
                /\ Len(rows') = Len(rows) + 1
                /\ SubSeq(rows', 1, Len(rows)) = rows
                /\ rows'[Len(rows')].id = reply'.id
                /\ \A i \in DOMAIN rows : rows[i].id # reply'.id]_vars

C30_BlankRejected ==
    /\ Len(rows) = 1
    /\ rows[1].name = <<"M", "i", "l", "k">>
    /\ reply.kind = "DatabaseError"
    /\ reply.name = <<" ">>

\* C26: add_food_manual with a name that is not empty, a category and an
\* expiry written YYYY-MM-DD (as Banana, fruits, 2026-02-05) returns success
\* with the id of the new item and days_remaining, and one active item with
\* that expiry date is in the table
C26_ManualDateOnly ==
    (/\ reply.kind = "manual"
     /\ Strip(reply.name) # <<>>
     /\ Len(reply.expiry) = 10
     /\ IsoDatePart(reply.expiry))
        => /\ reply.success
           /\ \E i \in DOMAIN rows :
                 /\ rows[i].id = reply.item_id
                 /\ rows[i].status = "active"
                 /\ SubSeq(rows[i].expiry_date, 1, 10) = reply.expiry

\* C24: after add_food_from_image, an extraction that succeeded has put
\* exactly one item in the table, with the parsed date as expiry date, the
\* current time as purchase date, status active, the given path as image
\* path and the aggregate OCR confidence of the extraction as
\* ocr_confidence; an extraction that failed has put none
C24_ImageItemStored ==
    (pc = "done" /\ reply.kind = "image") =>
        IF result.success
        THEN /\ Len(rows) = 1
             /\ rows[1].expiry_date = isoformat(Naive(best.date.year, best.date.month, best.date.day))
             /\ rows[1].purchase_date = now
             /\ rows[1].status = "active"
             /\ rows[1].image_path = ImagePath
             /\ rows[1].ocr_confidence = result.ocr_confidence
        ELSE rows = <<>>

Band(days) ==
    IF 1 <= days /\ days <= 540 THEN 1
    ELSE IF 541 <= days /\ days <= 1825 THEN 2
    ELSE 3

InBand(cands, n, b) == {i \in DOMAIN cands : Band(WholeDays(cands[i].date, n)) = b}

\* the best band that has a candidate
BestBand(cands, n) ==
    IF InBand(cands, n, 1) # {} THEN 1 ELSE IF InBand(cands, n, 2) # {} THEN 2 ELSE 3

FirstInBand(cands, n, b) == cands[SetMin(InBand(cands, n, b))]

\* C27: of the candidates the extractor gives, the selector returns the
\* first with 1 <= days <= 540 if there is one, else the first with
\* 541 <= days <= 1825 if there is one; a candidate that is past or more
\* than 1825 days away is returned only when every candidate is, and the
\* call then still returns a success
C27_BandOrder ==
    /\ pc = "package" =>
          /\ Band(best.days_until) = BestBand(extracted.candidates, now)
          /\ best.days_until = WholeDays(best.date, now)
          /\ BestBand(extracted.candidates, now) < 3 =>
                /\ best.date = FirstInBand(extracted.candidates, now,
                                           BestBand(extracted.candidates, now)).date
                /\ best.raw = FirstInBand(extracted.candidates, now,
                                          BestBand(extracted.candidates, now)).raw
          /\ Band(best.days_until) = 3 =>
                \A i \in DOMAIN extracted.candidates :
                    Band(WholeDays(extracted.candidates[i].date, now)) = 3
    /\ (pc = "returned" /\ extracted.outcome = "returned" /\ extracted.candidates # <<>>)
          => /\ result.success
             /\ result.date = FormatDate(best.date)
             /\ result.confidence = best.confidence

C27_LaterCandidateWins ==
    /\ pc = "returned"
    /\ result.success
    /\ Len(extracted.candidates) >= 2
    /\ extracted.candidates[1].date.year = 2028
    /\ Band(WholeDays(extracted.candidates[1].date, now)) = 2
    /\ result.date # FormatDate(extracted.candidates[1].date)
    /\ result.confidence = 1000

\* C28: in the photo tab the result a session is shown for its upload is
\* computed from the bytes of that upload, also when another session uploads
\* another photograph at the same time
C28_OwnUploadAnalyzed ==
    \A s \in DOMAIN sessions :
        sessions[s].pc \in {"analyzed", "shown"}
            => sessions[s].result = Analysis(sessions[s].upload)

====
